---- MODULE Spec2Model ----
(***************************************************************************)
(* Tobira AI service: the in-memory cache, the artifact store, the         *)
(* summary / quiz cache-aside endpoints and the cumulative-quiz composer.  *)
(*                                                                         *)
(* One module, several specifications over the same variables:            *)
(*   SpecCache   CacheService alone, with a clock                          *)
(*   Spec        the HTTP handlers for transcripts, summaries and quizzes  *)
(*   SpecSeries  CumulativeQuizService.getSeriesEventsUpTo on drawn tables *)
(*   SpecMerge   CumulativeQuizService.combineQuizzes on drawn inputs      *)
(*   SpecCum     CumulativeQuizService.generateCumulativeQuiz              *)
(*   SpecCumLang generateCumulativeQuiz with every kind of language         *)
(*   SpecCumFail generateCumulativeQuiz with failing store queries          *)
(*   SpecGather  the per-member reads of generateCumulativeQuiz             *)
(*   SpecQueue   the BullMQ summary and quiz workers                        *)
(*   SpecRace    generate requests handled concurrently                     *)
(*   SpecDegraded   the queue endpoints with and without Redis             *)
(*   SpecModeration the upserts and the moderation columns                 *)
(*   SpecRetry      the BullMQ attempts of the four job kinds              *)
(*   SpecRetryFair  SpecRetry with workers that keep working               *)
(*   SpecFlags      PUT /api/admin/flags/:id                               *)
(*   SpecGenerator  OpenAIService.generateQuiz on drawn replies            *)
(*   SpecStale      generateCumulativeQuiz after member quizzes changed    *)
(*   SpecCumSteps   generateCumulativeQuiz query by query                  *)
(*   SpecSkip       the workers' check for an existing summary or quiz     *)
(*   SpecTranscript    the transcript endpoints, normalized cache key      *)
(*   SpecTranscriptRaw the transcript endpoints of src/index.ts            *)
(*   SpecCumTies    generateCumulativeQuiz with members equal in order     *)
(* A specification leaves the variables it does not use at their initial   *)
(* value.                                                                  *)
(***************************************************************************)
EXTENDS Integers, Sequences, FiniteSets, TLC

VARIABLES
    now,          \* Date.now(), in milliseconds
    cache,        \* CacheService.cache: key -> [data, expires]
    hits,         \* CacheService.hits
    misses,       \* CacheService.misses
    sets,         \* observation: latest set() call per key, dropped by invalidate/clear
    transcripts,  \* table video_transcripts: <<event_id, language>> -> content
    summaries,    \* table ai_summaries:      <<event_id, language>> -> row
    quizzes,      \* table ai_quizzes:        <<event_id, language>> -> row
    cumulative,   \* table ai_cumulative_quizzes: <<event_id, language>> -> row
    events,       \* table all_events: id -> [series, state, order, created, title]
    aiConfig,     \* table ai_config: key -> value
    resp,         \* observation: the last completed call, its inputs and its outcome
    wiped,        \* observation: kind -> keys cached when the kind was last bulk-deleted
                  \*   and not generated since
    jobs,         \* BullMQ queues ai-summaries and ai-quizzes: job id -> job
    calls,        \* requests being handled: call id -> the handler's position and locals
    faults,       \* observation: the store queries that failed so far, in order
    queue,        \* queue.service: queueEnabled, connection and the queues and workers
    contentFlags, \* table ai_content_flags: id -> [content_type, content_id, status]
    flagged       \* column flagged of ai_summaries / ai_quizzes: <<type, id>> -> BOOLEAN

vars == <<now, cache, hits, misses, sets, transcripts, summaries, quizzes,
          cumulative, events, aiConfig, resp, wiped, jobs, calls, faults,
          queue, contentFlags, flagged>>

adminVars == <<queue, contentFlags, flagged>>
flightVars == <<jobs, calls, faults, adminVars>>
cacheVars == <<cache, hits, misses>>
storeVars == <<transcripts, summaries, quizzes, cumulative, events, aiConfig>>

(***************************************************************************)
(* Bounds of the model                                                     *)
(***************************************************************************)
MaxNowSeconds == 2       \* SpecCache: the clock stops after this many seconds
MaxGets == 3             \* SpecCache: at most this many counted get() calls

(***************************************************************************)
(* Small helpers                                                           *)
(***************************************************************************)
EmptyMap == <<>>

MapPut(m, k, v) == [x \in (DOMAIN m) \cup {k} |-> IF x = k THEN v ELSE m[x]]

MapDrop(m, ks) == [x \in (DOMAIN m) \ ks |-> m[x]]

(***************************************************************************)
(* queue.service: the module's variables before initializeQueues() runs    *)
(***************************************************************************)
QueueNames == {"ai-summaries", "ai-quizzes", "caption-extraction"}

\* queueEnabled = false, connection and every queue and worker null
QueueNotStarted ==
    [started |-> FALSE, enabled |-> FALSE, connection |-> "null",
     queues |-> {}, workers |-> {}, closed |-> FALSE]

(***************************************************************************)
(* utils/language: language codes are sequences of characters              *)
(***************************************************************************)
\* the JavaScript value undefined, as a language argument
Undefined == <<"undefined">>

toLowerCase(s) ==
    [i \in DOMAIN s |->
        CASE s[i] = "D" -> "d"
          [] s[i] = "E" -> "e"
          [] s[i] = "N" -> "n"
          [] s[i] = "U" -> "u"
          [] s[i] = "S" -> "s"
          [] OTHER -> s[i]]

RECURSIVE trimStart(_)
trimStart(s) ==
    IF s # <<>> /\ Head(s) = " " THEN trimStart(Tail(s)) ELSE s

RECURSIVE trimEnd(_)
trimEnd(s) ==
    IF s # <<>> /\ s[Len(s)] = " " THEN trimEnd(SubSeq(s, 1, Len(s) - 1)) ELSE s

trim(s) == trimEnd(trimStart(s))

\* !language: undefined and the empty string are falsy
Falsy(language) == language = Undefined \/ language = <<>>

\* normalizeLanguageCode throws exactly when this holds
LanguageRejected(language) == Falsy(language) \/ trim(language) = <<>>

normalizeLanguageCode(language) == trim(toLowerCase(language))

(***************************************************************************)
(* CacheService                                                            *)
(***************************************************************************)
DefaultCacheTtlSeconds == 3600

\* a ttlSeconds argument is {} when omitted and {n} when the number n is passed
EffectiveTtl(ttlSeconds) ==
    IF ttlSeconds = {} \/ ttlSeconds = {0}
    THEN DefaultCacheTtlSeconds
    ELSE CHOOSE n \in ttlSeconds : TRUE

Expired(entry, t) == t > entry.expires

\* the entry get() and has() act on: present and not expired
CacheLive(c, key, t) == key \in DOMAIN c /\ ~Expired(c[key], t)

\* the map after get(key) or has(key): an expired entry is deleted
CacheAfterRead(c, key, t) ==
    IF key \in DOMAIN c /\ Expired(c[key], t) THEN MapDrop(c, {key}) ELSE c

\* a set() that stores nothing
CacheAfterSetDropped(c, key, value, ttlSeconds, t) == c

CacheAfterSet(c, key, value, ttlSeconds, t) ==
    MapPut(c, key, [data |-> value, expires |-> t + EffectiveTtl(ttlSeconds) * 1000])

\* an invalidate that drops every entry
CacheAfterInvalidateAll(c, key) == EmptyMap

\* invalidate(key): this.cache.delete(key)
CacheAfterInvalidate(c, key) == MapDrop(c, {key})

\* a clear() that resets the counters and keeps the entries
CacheAfterClearKept(c) == c

\* this.cache.clear()
CacheAfterClear(c) == EmptyMap

\* a sweep that also removes the entries expiring at this very millisecond
CacheAfterCleanupInclusive(c, t) == MapDrop(c, {k \in DOMAIN c : t >= c[k].expires})

CacheAfterCleanup(c, t) == MapDrop(c, {k \in DOMAIN c : t > c[k].expires})

\* getStats(): size, hits and misses
getStats(c, h, m) == [size |-> Cardinality(DOMAIN c), hits |-> h, misses |-> m]

\* a get that counts an expired entry as a hit
HitsAfterGetStale(c, key, t, h) ==
    IF key \in DOMAIN c THEN h + 1 ELSE h

\* get(): the returned value, or a miss (null)
CacheGetResult(c, key, t) ==
    IF CacheLive(c, key, t)
    THEN [hit |-> TRUE, data |-> c[key].data]
    ELSE [hit |-> FALSE, data |-> "null"]

HitsAfterGet(c, key, t, h) == IF CacheLive(c, key, t) THEN h + 1 ELSE h

MissesAfterGet(c, key, t, m) == IF CacheLive(c, key, t) THEN m ELSE m + 1

(***************************************************************************)
(* SpecCache: the cache on its own                                         *)
(***************************************************************************)
CacheKeys == {"k1", "k2"}
CacheValues == {"v1", "v2"}
TtlArgs == {{}, {0}, {1}}

NoCall == [op |-> "none"]

InitStore ==
    /\ transcripts = EmptyMap
    /\ summaries = EmptyMap
    /\ quizzes = EmptyMap
    /\ cumulative = EmptyMap
    /\ events = EmptyMap
    /\ aiConfig = EmptyMap

InitCache ==
    /\ now = 0
    /\ jobs = EmptyMap
    /\ calls = EmptyMap
    /\ faults = <<>>
    /\ queue = QueueNotStarted
    /\ contentFlags = EmptyMap
    /\ flagged = EmptyMap
    /\ cache = EmptyMap
    /\ hits = 0
    /\ misses = 0
    /\ sets = EmptyMap
    /\ resp = NoCall
    /\ wiped = EmptyMap
    /\ InitStore

Get(key) ==
    /\ hits + misses < MaxGets
    /\ cache' = CacheAfterRead(cache, key, now)
    /\ hits' = HitsAfterGet(cache, key, now, hits)
    /\ misses' = MissesAfterGet(cache, key, now, misses)
    /\ resp' = [op |-> "get", key |-> key, at |-> now,
                hit |-> CacheGetResult(cache, key, now).hit,
                data |-> CacheGetResult(cache, key, now).data]
    /\ UNCHANGED <<flightVars, now, sets, storeVars, wiped>>

Has(key) ==
    /\ cache' = CacheAfterRead(cache, key, now)
    /\ resp' = [op |-> "has", key |-> key, at |-> now,
                hit |-> CacheLive(cache, key, now), data |-> "null"]
    /\ UNCHANGED <<flightVars, now, hits, misses, sets, storeVars, wiped>>

Set(key, value, ttlSeconds) ==
    /\ cache' = CacheAfterSet(cache, key, value, ttlSeconds, now)
    /\ sets' = MapPut(sets, key, [value |-> value, ttl |-> ttlSeconds, at |-> now])
    /\ resp' = [op |-> "set", key |-> key]
    /\ UNCHANGED <<flightVars, now, hits, misses, storeVars, wiped>>

Invalidate(key) ==
    /\ cache' = CacheAfterInvalidate(cache, key)
    /\ sets' = MapDrop(sets, {key})
    /\ resp' = [op |-> "invalidate", key |-> key,
                was |-> IF key \notin DOMAIN cache THEN "absent"
                        ELSE IF Expired(cache[key], now) THEN "expired" ELSE "live"]
    /\ UNCHANGED <<flightVars, now, hits, misses, storeVars, wiped>>

\* clear(); the reply keeps getStats() as it was before the call
Clear ==
    /\ cache' = CacheAfterClear(cache)
    /\ hits' = 0
    /\ misses' = 0
    /\ sets' = EmptyMap
    /\ resp' = [op |-> "clear", before |-> getStats(cache, hits, misses)]
    /\ UNCHANGED <<flightVars, now, storeVars, wiped>>

\* the setInterval callback
Cleanup ==
    /\ cache' = CacheAfterCleanup(cache, now)
    /\ resp' = [op |-> "cleanup", at |-> now,
                removed |-> Cardinality(DOMAIN cache \ DOMAIN cache')]
    /\ UNCHANGED <<flightVars, now, hits, misses, sets, storeVars, wiped>>

\* one second passes
TickSecond ==
    /\ now < MaxNowSeconds * 1000
    /\ now' = now + 1000
    /\ UNCHANGED <<flightVars, cacheVars, sets, storeVars, resp, wiped>>

NextCache ==
    \/ \E k \in CacheKeys : Get(k)
    \/ \E k \in CacheKeys : Has(k)
    \/ \E k \in CacheKeys, v \in CacheValues, ttl \in TtlArgs : Set(k, v, ttl)
    \/ \E k \in CacheKeys : Invalidate(k)
    \/ Clear
    \/ Cleanup
    \/ TickSecond

SpecCache == InitCache /\ [][NextCache]_vars

\* the ttl a set() call asked for: the number passed, the default when omitted
RequestedTtl(ttlSeconds) ==
    IF ttlSeconds = {} THEN DefaultCacheTtlSeconds ELSE CHOOSE n \in ttlSeconds : TRUE

\* C8: after set(key, value, ttl) at time t with no later set of the key, a
\* get or has of the key later than t + ttl seconds is a miss and removes the
\* entry, for every ttl; a get up to t + ttl seconds returns the value.
C8_TtlExpiry ==
    (resp.op \in {"get", "has"} /\ resp.key \in DOMAIN sets) =>
        LET s == sets[resp.key]
            deadline == s.at + RequestedTtl(s.ttl) * 1000
        IN  /\ resp.at > deadline => (~resp.hit /\ resp.key \notin DOMAIN cache)
            /\ (resp.at <= deadline /\ resp.op = "get") =>
                   (resp.hit /\ resp.data = s.value)


\* the step is invalidate(key)
Invalidated(key) == resp'.op = "invalidate" /\ resp'.key = key /\ now' = now

\* C32: invalidate(key) can be called in every state, whether the key is
\* present, expired or absent, and only returns; it removes the key's entry
\* and leaves every other entry and both counters as they were; from then on
\* a get of the key is a miss until the key is set again
C32_InvalidateIsBestEffort ==
    [][/\ \A k \in CacheKeys : ENABLED Invalidate(k)
       /\ \A k \in CacheKeys :
             Invalidated(k)
             => /\ k \notin DOMAIN cache'
                /\ DOMAIN cache' = DOMAIN cache \ {k}
                /\ \A o \in DOMAIN cache' : cache'[o] = cache[o]
                /\ UNCHANGED <<hits, misses>>
                /\ k \notin DOMAIN sets'
       /\ (resp'.op = "get" /\ now' = now /\ resp'.key \notin DOMAIN sets)
             => (~resp'.hit /\ misses' = misses + 1)
      ]_vars

\* a live entry was invalidated while another entry stayed and gets had been
\* counted
C32_Witness ==
    /\ resp.op = "invalidate" /\ resp.was = "live"
    /\ resp.key \notin DOMAIN cache
    /\ \E o \in DOMAIN cache : o # resp.key /\ ~Expired(cache[o], now)
    /\ hits > 0 /\ misses > 0

\* an expired entry was invalidated
C32_WitnessExpired ==
    resp.op = "invalidate" /\ resp.was = "expired"

\* C40: hits + misses counts the get calls since construction or the last
\* clear: both start at 0, a get adds one to exactly one of them (to hits for
\* a live entry, to misses for an absent or expired one), clear sets both to
\* 0, and has, set, invalidate, the sweep and the clock change neither
C40_CountersCountGets ==
    /\ hits = 0 /\ misses = 0
    /\ [][/\ (resp'.op = "get" /\ now' = now)
              => /\ hits' + misses' = hits + misses + 1
                 /\ IF CacheLive(cache, resp'.key, now)
                    THEN hits' = hits + 1 /\ resp'.hit
                    ELSE misses' = misses + 1 /\ ~resp'.hit
          /\ (resp'.op = "clear" /\ now' = now) => (hits' = 0 /\ misses' = 0)
          /\ (resp'.op \notin {"get", "clear"} \/ now' # now)
              => UNCHANGED <<hits, misses>>
         ]_vars

\* a get found an expired entry and counted a miss after a hit and a sweep
\* had left the counters alone
C40_Witness ==
    /\ resp.op = "get" /\ ~resp.hit
    /\ resp.key \in DOMAIN sets
    /\ hits = 1 /\ misses = 2

\* C26: after clear() the cache holds no entry and getStats() reports size,
\* hits and misses zero; from then on a get or has of a key is a miss until
\* the key is set again
C26_ClearEmptiesAndResets ==
    [][/\ (resp'.op = "clear" /\ resp' # resp)
           => /\ cache' = EmptyMap
              /\ getStats(cache', hits', misses') = [size |-> 0, hits |-> 0, misses |-> 0]
       /\ (resp'.op \in {"get", "has"} /\ resp' # resp /\ resp'.key \notin DOMAIN sets)
           => ~resp'.hit
       /\ \A k \in DOMAIN cache' : k \in DOMAIN sets'
      ]_vars

\* clear() was called on a cache with an entry and with counted gets
C26_Witness ==
    /\ resp.op = "clear"
    /\ resp.before.size > 0 /\ resp.before.hits > 0 /\ resp.before.misses > 0
    /\ cache = EmptyMap /\ hits = 0 /\ misses = 0

\* C27: the sweep removes exactly the entries whose expiry time has passed:
\* no expired entry remains, every unexpired entry is kept as it was, and
\* the hit and miss counters are unchanged
C27_SweepRemovesExpiredOnly ==
    [][(resp'.op = "cleanup" /\ resp' # resp)
          => /\ DOMAIN cache' = {k \in DOMAIN cache : ~Expired(cache[k], now)}
             /\ \A k \in DOMAIN cache' : cache'[k] = cache[k]
             /\ \A k \in DOMAIN cache' : ~Expired(cache'[k], now')
             /\ UNCHANGED <<hits, misses>>
      ]_vars

\* a sweep removed one entry, kept another, and gets had been counted
C27_Witness ==
    /\ resp.op = "cleanup" /\ resp.removed = 1
    /\ cache # EmptyMap
    /\ hits + misses > 0

(***************************************************************************)
(* all_events and CumulativeQuizService.getSeriesEventsUpTo                *)
(***************************************************************************)
\* the rank given to an event without metadata 'order'
NoOrderRank == 999999

\* an event's order is {} when its metadata has no 'order' and {n} otherwise
OrderRank(event) ==
    IF event.order = {} THEN NoOrderRank ELSE CHOOSE n \in event.order : TRUE

\* WHERE series = $1 AND state = 'ready' (a NULL series equals nothing)
SeriesMembers(tbl, seriesId) ==
    {id \in DOMAIN tbl :
        /\ tbl[id].series # "null"
        /\ tbl[id].series = seriesId
        /\ tbl[id].state = "ready"}

\* ORDER BY rank, created: a before-or-equal b
RowLeq(a, b) ==
    \/ OrderRank(a) < OrderRank(b)
    \/ OrderRank(a) = OrderRank(b) /\ a.created <= b.created

\* every row order ROW_NUMBER() OVER (ORDER BY rank, created) may produce:
\* rows equal in rank and created come in an order the database chooses
RowOrders(tbl, seriesId) ==
    LET m == SeriesMembers(tbl, seriesId)
        n == Cardinality(m)
    IN  {rows \in [1..n -> m] :
            /\ \A i, j \in 1..n : i # j => rows[i] # rows[j]
            /\ \A i, j \in 1..n : i < j => RowLeq(tbl[rows[i]], tbl[rows[j]])}

\* position of an id in a row order, 0 when absent (target_position is empty)
RECURSIVE PositionOf(_, _)
PositionOf(rows, id) ==
    IF rows = <<>> THEN 0
    ELSE IF rows[Len(rows)] = id THEN Len(rows)
    ELSE PositionOf(SubSeq(rows, 1, Len(rows) - 1), id)

\* the rows with position < the target's
getSeriesEventsBefore(tbl, rows, upToEventId) ==
    [i \in 1..(IF PositionOf(rows, upToEventId) = 0 THEN 0
               ELSE PositionOf(rows, upToEventId) - 1) |->
        [id |-> rows[i], title |-> tbl[rows[i]].title, position |-> i]]

\* the rows with position <= the target's, by position
getSeriesEventsUpTo(tbl, rows, upToEventId) ==
    [i \in 1..PositionOf(rows, upToEventId) |->
        [id |-> rows[i], title |-> tbl[rows[i]].title, position |-> i]]

(***************************************************************************)
(* SpecSeries: getSeriesEventsUpTo on every small table                    *)
(***************************************************************************)
EventIds == {9, 10, 30}
SeriesIds == {"s1", "s2"}
OrderValues == {{}, {1}, {2}, {1000000}}
CreatedValues == {1, 2}

TitleOf(id) == <<"title", id>>

ReadyInSeries(order, created, id) ==
    [series |-> "s1", state |-> "ready", order |-> order, created |-> created,
     title |-> TitleOf(id)]

\* tables with every event ready in series s1, except at most one event that
\* is in another series, in no series or not ready
SeriesTables ==
    LET base == {t \in [EventIds -> [order : OrderValues, created : CreatedValues]] : TRUE}
        full(t) == [id \in EventIds |-> ReadyInSeries(t[id].order, t[id].created, id)]
        odd(t, id) == {[full(t) EXCEPT ![id].series = "s2"],
                       [full(t) EXCEPT ![id].series = "null"],
                       [full(t) EXCEPT ![id].state = "processing"]}
    IN  {full(t) : t \in base} \cup UNION {odd(t, id) : t \in base, id \in EventIds}

InitSeries ==
    /\ now = 0
    /\ jobs = EmptyMap
    /\ calls = EmptyMap
    /\ faults = <<>>
    /\ queue = QueueNotStarted
    /\ contentFlags = EmptyMap
    /\ flagged = EmptyMap
    /\ cache = EmptyMap
    /\ hits = 0
    /\ misses = 0
    /\ sets = EmptyMap
    /\ transcripts = EmptyMap
    /\ summaries = EmptyMap
    /\ quizzes = EmptyMap
    /\ cumulative = EmptyMap
    /\ aiConfig = EmptyMap
    /\ events \in SeriesTables
    /\ resp = NoCall
    /\ wiped = EmptyMap

ResolveSeries(seriesId, upToEventId) ==
    /\ \E rows \in RowOrders(events, seriesId) :
          resp' = [op |-> "getSeriesEventsUpTo", seriesId |-> seriesId,
                   upToEventId |-> upToEventId,
                   rows |-> getSeriesEventsUpTo(events, rows, upToEventId)]
    /\ UNCHANGED <<flightVars, now, cacheVars, sets, storeVars, wiped>>

NextSeries == \E seriesId \in SeriesIds, id \in EventIds : ResolveSeries(seriesId, id)

SpecSeries == InitSeries /\ [][NextSeries]_vars

\* the order the rule of C5 puts two events in: a may stand before b
HintLeq(a, b) ==
    \/ a.order # {} /\ b.order = {}
    \/ /\ a.order # {} /\ b.order # {}
       /\ (CHOOSE n \in a.order : TRUE) < (CHOOSE n \in b.order : TRUE)
    \/ /\ a.order = b.order
       /\ a.created <= b.created

\* C5: the members returned by membersUpTo stand in orderHint order, every
\* member without an orderHint after every member with one (whatever its
\* value), ties by createdAt ascending; positions count from 1.
C5_OrderHintOrder ==
    resp.op = "getSeriesEventsUpTo" =>
        /\ \A i \in DOMAIN resp.rows : resp.rows[i].position = i
        /\ \A i, j \in DOMAIN resp.rows :
              i < j => HintLeq(events[resp.rows[i].id], events[resp.rows[j].id])

\* C37: the result of getSeriesEventsUpTo holds only ready members of the
\* series, at positions 1..n in ascending order, and its last row is the
\* target; it is empty exactly when the target is no ready member of the
\* series
C37_MembersUpToShape ==
    resp.op = "getSeriesEventsUpTo" =>
        LET r == resp.rows
            members == SeriesMembers(events, resp.seriesId)
        IN  /\ \A i \in DOMAIN r : r[i].id \in members /\ r[i].position = i
            /\ r # <<>> => r[Len(r)].id = resp.upToEventId
            /\ r = <<>> <=> resp.upToEventId \notin members

\* two of three events are ready members of the series, the third is not,
\* and the result for the later one lists both and ends with it
C37_Witness ==
    /\ resp.op = "getSeriesEventsUpTo"
    /\ Cardinality(SeriesMembers(events, resp.seriesId)) = 2
    /\ Len(resp.rows) = 2
    /\ resp.rows[2].id = resp.upToEventId

\* the target is not ready and the result is empty
C37_WitnessEmpty ==
    /\ resp.op = "getSeriesEventsUpTo"
    /\ resp.upToEventId \in DOMAIN events
    /\ events[resp.upToEventId].series = resp.seriesId
    /\ events[resp.upToEventId].state # "ready"
    /\ resp.rows = <<>>

(***************************************************************************)
(* Per-event quizzes and CumulativeQuizService.combineQuizzes              *)
(*                                                                         *)
(* The JSON value quiz_data.questions is [kind, items]: an array with its  *)
(* items, "absent" (no such field, or a falsy value) or "other" (a truthy  *)
(* value that is no array).                                                *)
(***************************************************************************)
JsonArray(items) == [kind |-> "array", items |-> items]
JsonAbsent == [kind |-> "absent", items |-> <<>>]
JsonOther == [kind |-> "other", items |-> <<>>]

\* quizData.questions || []
QuestionsOrEmpty(questions) ==
    IF questions.kind = "absent" THEN JsonArray(<<>>) ELSE questions

\* a lookup that generates a quiz for a member that has none
getOrGenerateIndividualQuizOnDemand(tbl, eventId, language) ==
    IF <<eventId, language>> \in DOMAIN tbl
    THEN [eventId |-> eventId,
          questions |-> QuestionsOrEmpty(tbl[<<eventId, language>>].quiz_data.questions)]
    ELSE [eventId |-> eventId,
          questions |-> JsonArray(<<[question |-> "generated", timestamp |-> {}]>>)]

\* SELECT quiz_data FROM ai_quizzes WHERE event_id = $1 AND language = $2,
\* with the language exactly as the caller passed it
getOrGenerateIndividualQuiz(tbl, eventId, language) ==
    IF <<eventId, language>> \in DOMAIN tbl
    THEN [eventId |-> eventId,
          questions |-> QuestionsOrEmpty(tbl[<<eventId, language>>].quiz_data.questions)]
    ELSE [eventId |-> eventId, questions |-> JsonArray(<<>>)]

\* one pushed question: the source question with its videoContext
WithVideoContext(q, event) ==
    [question |-> q.question,
     timestamp |-> q.timestamp,
     videoContext |-> [eventId |-> event.id, videoTitle |-> event.title,
                       videoNumber |-> event.position]]

\* the inner forEach: nothing is pushed unless questions is an array
QuestionsOf(quiz, event) ==
    IF quiz.questions.kind = "array"
    THEN [k \in DOMAIN quiz.questions.items |->
             WithVideoContext(quiz.questions.items[k], event)]
    ELSE <<>>

RECURSIVE CombineFrom(_, _, _)
CombineFrom(quizList, eventList, index) ==
    IF index > Len(quizList) THEN <<>>
    ELSE QuestionsOf(quizList[index], eventList[index])
            \o CombineFrom(quizList, eventList, index + 1)

\* a merge that drops a question already pushed
RECURSIVE DedupSeq(_)
DedupSeq(seq) ==
    IF seq = <<>> THEN <<>>
    ELSE LET init == DedupSeq(SubSeq(seq, 1, Len(seq) - 1))
             last == seq[Len(seq)]
         IN  IF \E k \in DOMAIN init : init[k].question = last.question
             THEN init ELSE Append(init, last)

combineQuizzesDedup(quizList, eventList) == DedupSeq(CombineFrom(quizList, eventList, 1))

combineQuizzes(quizList, eventList) == CombineFrom(quizList, eventList, 1)

(***************************************************************************)
(* SpecMerge: combineQuizzes on every small input                          *)
(***************************************************************************)
MaxQuestions == 3        \* a per-event quiz has at most this many questions

QuestionPool ==
    {[question |-> "qa", timestamp |-> {12}], [question |-> "qb", timestamp |-> {}]}

QuestionLists == UNION {[1..n -> QuestionPool] : n \in 0..MaxQuestions}

QuizDataValues ==
    {[questions |-> JsonAbsent], [questions |-> JsonOther]}
        \cup {[questions |-> JsonArray(items)] : items \in QuestionLists}

German == <<"d", "e">>

\* the members in position order; ids do not follow positions
MemberOrders == {<<30, 9, 10>>, <<9, 10, 30>>}

MemberList(ids) == [i \in DOMAIN ids |-> [id |-> ids[i], title |-> TitleOf(ids[i]), position |-> i]]

\* ai_quizzes with a row for any subset of the events
QuizTables ==
    UNION {[{<<id, German>> : id \in present} -> [quiz_data : QuizDataValues]] :
              present \in SUBSET EventIds}

InitMerge ==
    /\ now = 0
    /\ jobs = EmptyMap
    /\ calls = EmptyMap
    /\ faults = <<>>
    /\ queue = QueueNotStarted
    /\ contentFlags = EmptyMap
    /\ flagged = EmptyMap
    /\ cache = EmptyMap
    /\ hits = 0
    /\ misses = 0
    /\ sets = EmptyMap
    /\ transcripts = EmptyMap
    /\ summaries = EmptyMap
    /\ quizzes \in QuizTables
    /\ cumulative = EmptyMap
    /\ events = EmptyMap
    /\ aiConfig = EmptyMap
    /\ resp = NoCall
    /\ wiped = EmptyMap

\* steps 4 and 5 of generateCumulativeQuiz for a given member list
Combine(ids) ==
    /\ resp.op = "none"
    /\ LET members == MemberList(ids)
           individual == [i \in DOMAIN members |->
                             getOrGenerateIndividualQuiz(quizzes, members[i].id, German)]
       IN  resp' = [op |-> "combineQuizzes", members |-> members,
                    questions |-> combineQuizzes(individual, members)]
    /\ UNCHANGED <<flightVars, now, cacheVars, sets, storeVars, wiped>>

NextMerge == \E ids \in MemberOrders : Combine(ids)

SpecMerge == InitMerge /\ [][NextMerge]_vars

\* the question list a member brings: the items of its stored quiz when that
\* is an array, nothing otherwise
SourceQuestions(id) ==
    IF <<id, German>> \in DOMAIN quizzes
          /\ quizzes[<<id, German>>].quiz_data.questions.kind = "array"
    THEN quizzes[<<id, German>>].quiz_data.questions.items
    ELSE <<>>

RECURSIVE CountBefore(_, _)
CountBefore(members, i) ==
    IF i <= 1 THEN 0
    ELSE CountBefore(members, i - 1) + Len(SourceQuestions(members[i - 1].id))

\* C6: the merged list is the members' question lists one after the other in
\* member order: its length is the sum of their lengths, and the k-th question
\* of the i-th member stands at place (questions of earlier members) + k,
\* unchanged, tagged with that member's id, title and position.
C6_MergeIsConcatenation ==
    resp.op = "combineQuizzes" =>
        LET m == resp.members
        IN  /\ Len(resp.questions) = CountBefore(m, Len(m) + 1)
            /\ \A i \in DOMAIN m : \A k \in DOMAIN SourceQuestions(m[i].id) :
                  LET out == resp.questions[CountBefore(m, i) + k]
                      src == SourceQuestions(m[i].id)[k]
                  IN  /\ out.question = src.question
                      /\ out.timestamp = src.timestamp
                      /\ out.videoContext.eventId = m[i].id
                      /\ out.videoContext.videoTitle = m[i].title
                      /\ out.videoContext.videoNumber = i

\* three members with 2, 0 and 3 questions merged into 5, the first member
\* having the largest id
C6_Witness ==
    /\ resp.op = "combineQuizzes"
    /\ resp.members[1].id = 30
    /\ Len(SourceQuestions(resp.members[1].id)) = 2
    /\ Len(SourceQuestions(resp.members[2].id)) = 0
    /\ Len(SourceQuestions(resp.members[3].id)) = 3
    /\ Len(resp.questions) = 5
    /\ resp.questions[1].question = resp.questions[2].question

(***************************************************************************)
(* The HTTP handlers for transcripts, summaries and quizzes (index.ts).    *)
(* A handler runs as one step. Store rows are keyed <<event_id, language>>;*)
(* ai_config values are "true" or "false", a missing key has no value.     *)
(***************************************************************************)
MaxTicks == 1            \* Spec: the clock stops after this many ticks
MaxReads == 2            \* Spec: cache.get() is called while hits + misses is below this

transcriptKey(eventId, language) == <<"transcript", eventId, language>>
summaryKey(eventId, language) == <<"summary", eventId, language>>
quizCacheKey(eventId, language) == <<"quiz", eventId, language>>

\* db.isFeatureEnabled(): enabled === true || enabled === 'true'
isFeatureEnabled(cfg) ==
    "features_enabled" \in DOMAIN cfg /\ cfg["features_enabled"] = "true"

\* the quiz endpoint's test: !(await db.getConfig('quiz_enabled')) is false
quizConfigTruthy(cfg) ==
    "quiz_enabled" \in DOMAIN cfg /\ cfg["quiz_enabled"] = "true"

\* what the summary generator can return or throw
SummaryResults ==
    {[ok |-> TRUE, content |-> "summary-a", model |-> "model-a", processingTime |-> 1,
      message |-> ""],
     [ok |-> TRUE, content |-> "summary-b", model |-> "model-b", processingTime |-> 2,
      message |-> ""],
     [ok |-> FALSE, content |-> "", model |-> "", processingTime |-> 0,
      message |-> "Failed to generate summary: Request timed out."]}

FiveOf(q) == [i \in 1..5 |-> q]

\* what the quiz generator can return or throw: at least 5 questions
QuizResults ==
    {[ok |-> TRUE, model |-> "model-a", processingTime |-> 1, message |-> "",
      quizData |-> [questions |-> JsonArray(FiveOf([question |-> "qa", timestamp |-> {12}]))]],
     [ok |-> TRUE, model |-> "model-b", processingTime |-> 2, message |-> "",
      quizData |-> [questions |-> JsonArray(FiveOf([question |-> "qb", timestamp |-> {}]))]],
     [ok |-> FALSE, model |-> "", processingTime |-> 0,
      message |-> "Failed to generate quiz: Request timed out.",
      quizData |-> [questions |-> JsonAbsent]],
     [ok |-> FALSE, model |-> "", processingTime |-> 0,
      message |-> "Failed to generate quiz: Invalid quiz format: missing questions array",
      quizData |-> [questions |-> JsonAbsent]]}

\* a catch block that answers with a fixed text
errorMessageFixed(result) == "Internal server error"

\* the catch block of a handler: message: error.message
errorMessage(result) == result.message

\* the response and what the call did: key is {} or {the store key addressed},
\* payload is {} or {the content sent}
Reply(op, key, force, status, source, payload, generated, stored, cacheSet) ==
    [op |-> op, key |-> key, force |-> force, status |-> status,
     source |-> source, payload |-> payload,
     generated |-> generated, stored |-> stored, cacheSet |-> cacheSet,
     afterWipe |-> FALSE, message |-> ""]

\* wiped[kind] holds the keys that were cached when the kind was last bulk
\* deleted and for which no generate request has been handled since
Unwipe(w, kind, key) == [w EXCEPT ![kind] = @ \ {key}]

\* the moderation columns of a row as INSERT leaves them (schema defaults);
\* {} stands for NULL
NotModerated ==
    [approved |-> FALSE, approved_at |-> {}, approved_by |-> {},
     edited_by_human |-> FALSE, last_edited_by |-> {}]

ModerationColumns == DOMAIN NotModerated

\* the moderation columns of a row
Moderation(row) == [f \in ModerationColumns |-> row[f]]

\* an upsert that on conflict replaces the summary text only
saveSummaryTextOnly(tbl, key, result) ==
    IF key \in DOMAIN tbl
    THEN [tbl EXCEPT ![key].summary = result.content]
    ELSE MapPut(tbl, key,
                [summary |-> result.content, model |-> result.model,
                 processing_time_ms |-> result.processingTime] @@ NotModerated)

\* an upsert that replaces the whole row
saveSummaryReplace(tbl, key, result) ==
    MapPut(tbl, key,
           [summary |-> result.content, model |-> result.model,
            processing_time_ms |-> result.processingTime] @@ NotModerated)

\* db.saveSummary(): insert, or on conflict replace summary, model and time
saveSummary(tbl, key, result) ==
    IF key \in DOMAIN tbl
    THEN [tbl EXCEPT ![key].summary = result.content,
                     ![key].model = result.model,
                     ![key].processing_time_ms = result.processingTime]
    ELSE MapPut(tbl, key,
                [summary |-> result.content, model |-> result.model,
                 processing_time_ms |-> result.processingTime] @@ NotModerated)

\* POST /api/summaries/generate/:eventId
GenerateSummary(eventId, language, forceRegenerate) ==
    LET lang == normalizeLanguageCode(language)
        key == <<eventId, lang>>
        say(status, source, payload, generated, stored, cacheSet) ==
            resp' = [Reply("generateSummary",
                           IF LanguageRejected(language) THEN {} ELSE {key},
                           forceRegenerate, status, source, payload, generated,
                           stored, cacheSet)
                     EXCEPT !.afterWipe = ~LanguageRejected(language)
                                          /\ key \in wiped["summary"]]
        fail(result) ==
            resp' = [Reply("generateSummary", {key}, forceRegenerate, 500, "none",
                           {}, 1, 0, 0)
                     EXCEPT !.afterWipe = key \in wiped["summary"],
                            !.message = errorMessage(result)]
    IN  IF Falsy(language)
        THEN /\ say(400, "none", {}, 0, 0, 0)
             /\ UNCHANGED <<flightVars, now, cacheVars, sets, storeVars, wiped>>
        ELSE IF LanguageRejected(language)
        THEN /\ say(500, "none", {}, 0, 0, 0)
             /\ UNCHANGED <<flightVars, now, cacheVars, sets, storeVars, wiped>>
        ELSE IF ~isFeatureEnabled(aiConfig)
        THEN /\ say(403, "none", {}, 0, 0, 0)
             /\ wiped' = Unwipe(wiped, "summary", key)
             /\ UNCHANGED <<flightVars, now, cacheVars, sets, storeVars>>
        ELSE IF ~forceRegenerate /\ key \in DOMAIN summaries
        THEN /\ say(200, "store", {summaries[key].summary}, 0, 0, 0)
             /\ wiped' = Unwipe(wiped, "summary", key)
             /\ UNCHANGED <<flightVars, now, cacheVars, sets, storeVars>>
        ELSE IF key \notin DOMAIN transcripts
        THEN /\ say(404, "none", {}, 0, 0, 0)
             /\ wiped' = Unwipe(wiped, "summary", key)
             /\ UNCHANGED <<flightVars, now, cacheVars, sets, storeVars>>
        ELSE \E result \in SummaryResults :
             /\ IF ~result.ok
                THEN /\ fail(result)
                     /\ UNCHANGED <<summaries, cache>>
                ELSE /\ summaries' = saveSummary(summaries, key, result)
                     /\ cache' = CacheAfterSet(cache, summaryKey(eventId, lang),
                                               result.content, {}, now)
                     /\ say(200, "fresh", {result.content}, 1, 1, 1)
             /\ wiped' = Unwipe(wiped, "summary", key)
             /\ UNCHANGED <<flightVars, now, hits, misses, sets, transcripts, quizzes,
                            cumulative, events, aiConfig>>

\* GET /api/summaries/:eventId (a request without a usable language is
\* answered 400 or 500 before anything is read)
GetSummary(eventId, language) ==
    LET lang == normalizeLanguageCode(language)
        key == <<eventId, lang>>
        ck == summaryKey(eventId, lang)
        say(status, source, payload, cacheSet) ==
            resp' = Reply("getSummary", {key}, FALSE, status, source, payload, 0, 0, cacheSet)
    IN  /\ ~Falsy(language)
        /\ ~LanguageRejected(language)
        /\ hits + misses < MaxReads
        /\ hits' = HitsAfterGet(cache, ck, now, hits)
        /\ misses' = MissesAfterGet(cache, ck, now, misses)
        /\ IF key \notin DOMAIN summaries
           THEN /\ cache' = CacheAfterRead(cache, ck, now)
                /\ say(404, "none", {}, 0)
           ELSE /\ cache' = CacheAfterSet(CacheAfterRead(cache, ck, now), ck,
                                          summaries[key].summary, {}, now)
                /\ say(200, "store", {summaries[key].summary}, 1)
        /\ UNCHANGED <<flightVars, now, sets, storeVars, wiped>>

\* the INSERT without its DO UPDATE: an existing row is kept
saveQuizIfAbsent(tbl, key, result) ==
    IF key \in DOMAIN tbl
    THEN tbl
    ELSE MapPut(tbl, key,
                [quiz_data |-> result.quizData, model |-> result.model,
                 processing_time_ms |-> result.processingTime] @@ NotModerated)

\* the INSERT ... ON CONFLICT of the quiz endpoint
saveQuiz(tbl, key, result) ==
    IF key \in DOMAIN tbl
    THEN [tbl EXCEPT ![key].quiz_data = result.quizData,
                     ![key].model = result.model,
                     ![key].processing_time_ms = result.processingTime]
    ELSE MapPut(tbl, key,
                [quiz_data |-> result.quizData, model |-> result.model,
                 processing_time_ms |-> result.processingTime] @@ NotModerated)

\* POST /api/quizzes/generate/:eventId
GenerateQuiz(eventId, language, forceRegenerate) ==
    LET lang == normalizeLanguageCode(language)
        key == <<eventId, lang>>
        ck == quizCacheKey(eventId, lang)
        reads == ~forceRegenerate
        cached == CacheGetResult(cache, ck, now)
        afterRead == IF reads THEN CacheAfterRead(cache, ck, now) ELSE cache
        say(status, source, payload, generated, stored, cacheSet) ==
            resp' = [Reply("generateQuiz",
                           IF LanguageRejected(language) THEN {} ELSE {key},
                           forceRegenerate, status, source, payload, generated,
                           stored, cacheSet)
                     EXCEPT !.afterWipe = ~LanguageRejected(language)
                                          /\ key \in wiped["quiz"]]
        fail(result) ==
            resp' = [Reply("generateQuiz", {key}, forceRegenerate, 500, "none",
                           {}, 1, 0, 0)
                     EXCEPT !.afterWipe = key \in wiped["quiz"],
                            !.message = errorMessage(result)]
    IN  IF Falsy(language)
        THEN /\ say(400, "none", {}, 0, 0, 0)
             /\ UNCHANGED <<flightVars, now, cacheVars, sets, storeVars, wiped>>
        ELSE IF LanguageRejected(language)
        THEN /\ say(500, "none", {}, 0, 0, 0)
             /\ UNCHANGED <<flightVars, now, cacheVars, sets, storeVars, wiped>>
        ELSE IF ~quizConfigTruthy(aiConfig)
        THEN /\ say(403, "none", {}, 0, 0, 0)
             /\ wiped' = Unwipe(wiped, "quiz", key)
             /\ UNCHANGED <<flightVars, now, cacheVars, sets, storeVars>>
        ELSE /\ reads => hits + misses < MaxReads
             /\ hits' = IF reads THEN HitsAfterGet(cache, ck, now, hits) ELSE hits
             /\ misses' = IF reads THEN MissesAfterGet(cache, ck, now, misses) ELSE misses
             /\ wiped' = Unwipe(wiped, "quiz", key)
             /\ IF reads /\ cached.hit
                THEN /\ say(200, "cache", {cached.data}, 0, 0, 0)
                     /\ cache' = afterRead
                     /\ UNCHANGED quizzes
                ELSE IF key \notin DOMAIN transcripts
                THEN /\ say(404, "none", {}, 0, 0, 0)
                     /\ cache' = afterRead
                     /\ UNCHANGED quizzes
                ELSE \E result \in QuizResults :
                     IF ~result.ok
                     THEN /\ fail(result)
                          /\ cache' = afterRead
                          /\ UNCHANGED quizzes
                     ELSE /\ quizzes' = saveQuiz(quizzes, key, result)
                          /\ cache' = CacheAfterSet(afterRead, ck, result.quizData, {}, now)
                          /\ say(200, "fresh", {result.quizData}, 1, 1, 1)
             /\ UNCHANGED <<flightVars, now, sets, transcripts, summaries, cumulative, events,
                            aiConfig>>

\* GET /api/quizzes/:eventId (a request without a usable language is
\* answered 400 or 500 before anything is read)
GetQuiz(eventId, language) ==
    LET lang == normalizeLanguageCode(language)
        key == <<eventId, lang>>
        ck == quizCacheKey(eventId, lang)
        say(status, source, payload, cacheSet) ==
            resp' = Reply("getQuiz", {key}, FALSE, status, source, payload, 0, 0, cacheSet)
    IN  /\ ~Falsy(language)
        /\ ~LanguageRejected(language)
        /\ hits + misses < MaxReads
        /\ hits' = HitsAfterGet(cache, ck, now, hits)
        /\ misses' = MissesAfterGet(cache, ck, now, misses)
        /\ IF key \notin DOMAIN quizzes
           THEN /\ cache' = CacheAfterRead(cache, ck, now)
                /\ say(404, "none", {}, 0)
           ELSE /\ cache' = CacheAfterSet(CacheAfterRead(cache, ck, now), ck,
                                          quizzes[key].quiz_data, {}, now)
                /\ say(200, "store", {quizzes[key].quiz_data}, 1)
        /\ UNCHANGED <<flightVars, now, sets, storeVars, wiped>>

\* the UPDATE of PUT /api/summaries/:eventId and PUT /api/quizzes/:eventId:
\* approved is {} when the body has none, approvedBy likewise
EditedRow(row, column, payload, approved, approvedBy, t) ==
    LET editor == IF approvedBy = {} THEN "admin" ELSE CHOOSE a \in approvedBy : TRUE
        edited == [row EXCEPT ![column] = payload, !.edited_by_human = TRUE]
    IN  IF approved # {}
        THEN [edited EXCEPT !.approved = (approved = {TRUE}),
                            !.approved_at = IF approved = {TRUE} THEN {t} ELSE {},
                            !.approved_by = {editor},
                            !.last_edited_by = {editor}]
        ELSE [edited EXCEPT !.last_edited_by = {"admin"}]

\* PUT /api/summaries/:eventId; summary "" is a body without summary
UpdateSummary(eventId, language, summary, approved, approvedBy) ==
    LET lang == normalizeLanguageCode(language)
        key == <<eventId, lang>>
        ck == summaryKey(eventId, lang)
        say(status, stored) ==
            resp' = Reply("updateSummary",
                          IF Falsy(language) \/ LanguageRejected(language) THEN {} ELSE {key},
                          FALSE, status, "none", {}, 0, stored, 0)
    IN  IF Falsy(language) \/ summary = ""
        THEN /\ say(400, 0)
             /\ UNCHANGED <<flightVars, now, cacheVars, sets, storeVars, wiped>>
        ELSE IF LanguageRejected(language)
        THEN /\ say(500, 0)
             /\ UNCHANGED <<flightVars, now, cacheVars, sets, storeVars, wiped>>
        ELSE IF key \notin DOMAIN summaries
        THEN /\ say(404, 0)
             /\ UNCHANGED <<flightVars, now, cacheVars, sets, storeVars, wiped>>
        ELSE /\ summaries' = [summaries EXCEPT ![key] =
                     EditedRow(@, "summary", summary, approved, approvedBy, now)]
             /\ cache' = CacheAfterInvalidate(cache, ck)
             /\ sets' = MapDrop(sets, {ck})
             /\ say(200, 1)
             /\ UNCHANGED <<flightVars, now, hits, misses, transcripts, quizzes, cumulative,
                            events, aiConfig, wiped>>

\* a request body without the field quiz
NoQuizInBody == [missing |-> "quiz"]

\* PUT /api/quizzes/:eventId
UpdateQuiz(eventId, language, quiz, approved, approvedBy) ==
    LET lang == normalizeLanguageCode(language)
        key == <<eventId, lang>>
        ck == quizCacheKey(eventId, lang)
        say(status, stored) ==
            resp' = Reply("updateQuiz",
                          IF Falsy(language) \/ LanguageRejected(language) THEN {} ELSE {key},
                          FALSE, status, "none", {}, 0, stored, 0)
    IN  IF Falsy(language) \/ quiz = NoQuizInBody
        THEN /\ say(400, 0)
             /\ UNCHANGED <<flightVars, now, cacheVars, sets, storeVars, wiped>>
        ELSE IF LanguageRejected(language)
        THEN /\ say(500, 0)
             /\ UNCHANGED <<flightVars, now, cacheVars, sets, storeVars, wiped>>
        ELSE IF key \notin DOMAIN quizzes
        THEN /\ say(404, 0)
             /\ UNCHANGED <<flightVars, now, cacheVars, sets, storeVars, wiped>>
        ELSE /\ quizzes' = [quizzes EXCEPT ![key] =
                     EditedRow(@, "quiz_data", quiz, approved, approvedBy, now)]
             /\ cache' = CacheAfterInvalidate(cache, ck)
             /\ sets' = MapDrop(sets, {ck})
             /\ say(200, 1)
             /\ UNCHANGED <<flightVars, now, hits, misses, transcripts, summaries, cumulative,
                            events, aiConfig, wiped>>

\* DELETE /api/quizzes/:eventId?language=
DeleteQuiz(eventId, language) ==
    LET lang == normalizeLanguageCode(language)
        key == <<eventId, lang>>
        ck == quizCacheKey(eventId, lang)
        say(status, stored) ==
            resp' = Reply("deleteQuiz",
                          IF Falsy(language) \/ LanguageRejected(language) THEN {} ELSE {key},
                          FALSE, status, "none", {}, 0, stored, 0)
    IN  IF Falsy(language)
        THEN /\ say(400, 0)
             /\ UNCHANGED <<flightVars, now, cacheVars, sets, storeVars, wiped>>
        ELSE IF LanguageRejected(language)
        THEN /\ say(500, 0)
             /\ UNCHANGED <<flightVars, now, cacheVars, sets, storeVars, wiped>>
        ELSE IF key \notin DOMAIN quizzes
        THEN /\ say(404, 0)
             /\ UNCHANGED <<flightVars, now, cacheVars, sets, storeVars, wiped>>
        ELSE /\ quizzes' = MapDrop(quizzes, {key})
             /\ cache' = CacheAfterInvalidate(cache, ck)
             /\ sets' = MapDrop(sets, {ck})
             /\ say(200, 1)
             /\ UNCHANGED <<flightVars, now, hits, misses, transcripts, summaries, cumulative,
                            events, aiConfig, wiped>>

\* db.saveTranscript(): insert, or on conflict replace content and source
saveTranscript(tbl, key, content) ==
    MapPut(tbl, key, [content |-> content, source |-> "manual_upload"])

\* POST /api/transcripts/upload (400 and 500 change nothing)
UploadTranscript(eventId, language, content) ==
    LET lang == normalizeLanguageCode(language)
        key == <<eventId, lang>>
    IN  /\ ~Falsy(language)
        /\ ~LanguageRejected(language)
        /\ transcripts' = saveTranscript(transcripts, key, content)
        /\ cache' = CacheAfterInvalidate(cache, transcriptKey(eventId, lang))
        /\ resp' = Reply("uploadTranscript", {key}, FALSE, 200, "none", {}, 0, 1, 0)
        /\ UNCHANGED <<flightVars, now, hits, misses, sets, summaries, quizzes,
                       cumulative, events, aiConfig, wiped>>

\* the store keys whose entry of this kind is live in the cache
CachedKeys(c, kind, t) ==
    {<<k[2], k[3]>> : k \in {x \in DOMAIN c : x[1] = kind /\ CacheLive(c, x, t)}}

BulkReply(op) == Reply(op, {}, FALSE, 200, "none", {}, 0, 1, 0)

\* DELETE /api/admin/summaries/all: deleteAllSummaries(), then cache.clear()
DeleteAllSummaries ==
    /\ summaries' = EmptyMap
    /\ cache' = EmptyMap
    /\ hits' = 0
    /\ misses' = 0
    /\ wiped' = [wiped EXCEPT !["summary"] = CachedKeys(cache, "summary", now)]
    /\ resp' = BulkReply("deleteAllSummaries")
    /\ UNCHANGED <<flightVars, now, sets, transcripts, quizzes, cumulative, events, aiConfig>>

\* the bulk delete of quizzes without its cache.clear()
DeleteAllQuizzesKeepCache ==
    /\ quizzes' = EmptyMap
    /\ wiped' = [wiped EXCEPT !["quiz"] = CachedKeys(cache, "quiz", now)]
    /\ resp' = BulkReply("deleteAllQuizzes")
    /\ UNCHANGED <<flightVars, now, cacheVars, sets, transcripts, summaries, cumulative, events,
                   aiConfig>>

\* DELETE /api/admin/quizzes/all: deleteAllQuizzes(), then cache.clear()
DeleteAllQuizzes ==
    /\ quizzes' = EmptyMap
    /\ cache' = EmptyMap
    /\ hits' = 0
    /\ misses' = 0
    /\ wiped' = [wiped EXCEPT !["quiz"] = CachedKeys(cache, "quiz", now)]
    /\ resp' = BulkReply("deleteAllQuizzes")
    /\ UNCHANGED <<flightVars, now, sets, transcripts, summaries, cumulative, events, aiConfig>>

\* DELETE /api/admin/transcripts/all: deleteAllTranscripts(), then cache.clear()
DeleteAllTranscripts ==
    /\ transcripts' = EmptyMap
    /\ cache' = EmptyMap
    /\ hits' = 0
    /\ misses' = 0
    /\ resp' = BulkReply("deleteAllTranscripts")
    /\ UNCHANGED <<flightVars, now, sets, summaries, quizzes, cumulative, events, aiConfig, wiped>>

\* db.setConfig(key, value): an administrator switches a feature
setConfig(key, value) ==
    /\ aiConfig' = MapPut(aiConfig, key, value)
    /\ resp' = Reply("setConfig", {}, FALSE, 200, "none", {}, 0, 1, 0)
    /\ UNCHANGED <<flightVars, now, cacheVars, sets, transcripts, summaries, quizzes,
                   cumulative, events, wiped>>

\* one tick of the clock: just over the default time to live
TickMs == DefaultCacheTtlSeconds * 1000 + 1000

\* time passes
Tick ==
    /\ now < MaxTicks * TickMs
    /\ now' = now + TickMs
    /\ UNCHANGED <<flightVars, cacheVars, sets, storeVars, resp, wiped>>

HttpEventIds == {9}
HttpLanguages == {<<"D", "E">>, <<"d", "e">>, Undefined}
TranscriptContents == {"transcript-a"}
ConfigKeys == {"features_enabled", "quiz_enabled"}
ConfigValues == {"true", "false"}

\* the configuration after schema.sql and the feature-toggle migration
Init ==
    /\ now = 0
    /\ jobs = EmptyMap
    /\ calls = EmptyMap
    /\ faults = <<>>
    /\ queue = QueueNotStarted
    /\ contentFlags = EmptyMap
    /\ flagged = EmptyMap
    /\ cache = EmptyMap
    /\ hits = 0
    /\ misses = 0
    /\ sets = EmptyMap
    /\ resp = NoCall
    /\ wiped = [summary |-> {}, quiz |-> {}]
    /\ transcripts = EmptyMap
    /\ summaries = EmptyMap
    /\ quizzes = EmptyMap
    /\ cumulative = EmptyMap
    /\ events = EmptyMap
    /\ aiConfig = [k \in {"features_enabled", "quiz_enabled"} |-> "true"]

Next ==
    \/ \E e \in HttpEventIds, l \in HttpLanguages, f \in BOOLEAN : GenerateSummary(e, l, f)
    \/ \E e \in HttpEventIds, l \in HttpLanguages, f \in BOOLEAN : GenerateQuiz(e, l, f)
    \/ \E e \in HttpEventIds, l \in HttpLanguages : GetSummary(e, l)
    \/ \E e \in HttpEventIds, l \in HttpLanguages : GetQuiz(e, l)
    \/ \E e \in HttpEventIds, l \in HttpLanguages, c \in TranscriptContents :
           UploadTranscript(e, l, c)
    \/ DeleteAllSummaries
    \/ DeleteAllQuizzes
    \/ DeleteAllTranscripts
    \/ \E k \in ConfigKeys, v \in ConfigValues : setConfig(k, v)
    \/ Tick

Spec == Init /\ [][Next]_vars

(***************************************************************************)
(* Claims about the generate endpoints                                     *)
(***************************************************************************)
\* the step is the generate request of this kind and force flag for this key:
\* only that handler writes this response, and every handler leaves the clock
\* alone
Called(op, force, key) ==
    /\ resp'.op = op
    /\ resp'.force = force
    /\ resp'.key = {key}
    /\ now' = now

StoreKeys == {<<e, normalizeLanguageCode(l)>> :
                  e \in HttpEventIds, l \in {x \in HttpLanguages : ~LanguageRejected(x)}}

SummaryCacheKey(key) == summaryKey(key[1], key[2])
QuizCacheKey(key) == quizCacheKey(key[1], key[2])

\* C1: a non-forced generate request that finds no live cache entry while the
\* store holds the artifact returns the stored artifact, populates the cache
\* with it, does not invoke the generator and does not overwrite the row,
\* for summaries and for quizzes.
C1_StoreHitIsServedAndCached ==
    [][\A key \in StoreKeys :
        /\ (/\ Called("generateSummary", FALSE, key)
            /\ isFeatureEnabled(aiConfig)
            /\ ~CacheLive(cache, SummaryCacheKey(key), now)
            /\ key \in DOMAIN summaries)
           => (/\ resp'.status = 200
               /\ resp'.payload = {summaries[key].summary}
               /\ resp'.generated = 0
               /\ summaries' = summaries
               /\ CacheLive(cache', SummaryCacheKey(key), now)
               /\ cache'[SummaryCacheKey(key)].data = summaries[key].summary)
        /\ (/\ Called("generateQuiz", FALSE, key)
            /\ quizConfigTruthy(aiConfig)
            /\ ~CacheLive(cache, QuizCacheKey(key), now)
            /\ key \in DOMAIN quizzes)
           => (/\ resp'.status = 200
               /\ resp'.payload = {quizzes[key].quiz_data}
               /\ resp'.generated = 0
               /\ quizzes' = quizzes
               /\ CacheLive(cache', QuizCacheKey(key), now)
               /\ cache'[QuizCacheKey(key)].data = quizzes[key].quiz_data)
      ]_vars

\* the response in hand is a successful non-forced generate response for key
LastWas(op, key) ==
    /\ resp.op = op
    /\ ~resp.force
    /\ resp.status = 200
    /\ resp.key = {key}

\* C2: of two non-forced generate requests for the same key with no other
\* operation between them, the second returns the payload of the first and
\* performs no generator invocation and no store write.
C2_SecondCallRepeatsFirst ==
    [][\A key \in StoreKeys, op \in {"generateSummary", "generateQuiz"} :
        (LastWas(op, key) /\ Called(op, FALSE, key))
           => (/\ resp'.status = 200
               /\ resp'.payload = resp.payload
               /\ resp'.generated = 0
               /\ resp'.stored = 0)
      ]_vars

\* what a successful generation leaves behind for a summary key
SummaryOverwritten(key) ==
    /\ resp'.source = "fresh"
    /\ resp'.stored = 1
    /\ resp'.cacheSet = 1
    /\ key \in DOMAIN summaries'
    /\ resp'.payload = {summaries'[key].summary}
    /\ CacheLive(cache', SummaryCacheKey(key), now)
    /\ resp'.payload = {cache'[SummaryCacheKey(key)].data}

\* what a successful generation leaves behind for a quiz key
QuizOverwritten(key) ==
    /\ resp'.source = "fresh"
    /\ resp'.stored = 1
    /\ resp'.cacheSet = 1
    /\ key \in DOMAIN quizzes'
    /\ resp'.payload = {quizzes'[key].quiz_data}
    /\ CacheLive(cache', QuizCacheKey(key), now)
    /\ resp'.payload = {cache'[QuizCacheKey(key)].data}

\* C3 (amended): a forced generate request whose feature check passes and
\* whose transcript exists invokes the generator exactly once whatever the
\* cache and the store hold, and when the generator succeeds the store row and
\* the cache entry of the key hold the new artifact; a forced request whose
\* feature is disabled (403) or whose transcript is missing (404) invokes no
\* generator and writes nothing.
C3_ForcedGeneratesWhenAllowed ==
    [][\A key \in StoreKeys :
        /\ Called("generateSummary", TRUE, key)
           => IF isFeatureEnabled(aiConfig) /\ key \in DOMAIN transcripts
              THEN /\ resp'.generated = 1
                   /\ resp'.status \in {200, 500}
                   /\ resp'.status = 200 => SummaryOverwritten(key)
              ELSE /\ resp'.generated = 0
                   /\ resp'.status \in {403, 404}
                   /\ UNCHANGED <<cache, storeVars>>
        /\ Called("generateQuiz", TRUE, key)
           => IF quizConfigTruthy(aiConfig) /\ key \in DOMAIN transcripts
              THEN /\ resp'.generated = 1
                   /\ resp'.status \in {200, 500}
                   /\ resp'.status = 200 => QuizOverwritten(key)
              ELSE /\ resp'.generated = 0
                   /\ resp'.status \in {403, 404}
                   /\ UNCHANGED <<cache, storeVars>>
      ]_vars

\* C3 as stated: every forced generate request invokes the generator once and
\* overwrites store row and cache entry, whatever the transcript table and the
\* feature configuration hold.
C3_ForcedAlwaysGenerates ==
    [][\A key \in StoreKeys :
        /\ Called("generateSummary", TRUE, key)
           => (resp'.generated = 1 /\ SummaryOverwritten(key))
        /\ Called("generateQuiz", TRUE, key)
           => (resp'.generated = 1 /\ QuizOverwritten(key))
      ]_vars

\* a forced quiz request has generated and its output is what the store row
\* and the cache entry hold, after an earlier request was served from the cache
C3_Witness ==
    /\ resp.op = "generateQuiz"
    /\ resp.force
    /\ resp.status = 200
    /\ resp.generated = 1
    /\ hits > 0
    /\ \E key \in resp.key :
           /\ key \in DOMAIN transcripts
           /\ resp.payload = {quizzes[key].quiz_data}
           /\ resp.payload = {cache[QuizCacheKey(key)].data}

\* the generate request is the first one for its key since the key's kind was
\* bulk deleted while the key was cached
FirstAfterWipe(op, kind, key) ==
    /\ key \in wiped[kind]
    /\ \E f \in BOOLEAN : Called(op, f, key)

Fresh ==
    /\ resp'.source = "fresh"
    /\ resp'.generated = 1
    /\ resp'.stored = 1
    /\ resp'.cacheSet = 1

\* C7 (amended): after a bulk delete of a kind, the first generate request for
\* a key of that kind that was cached before the delete is never answered from
\* the cache or the store; it is answered 200 only by a fresh generation that
\* writes store and cache, and otherwise fails with 403 (feature disabled),
\* 404 (no transcript) or 500 (generator error).
C7_NothingStaleAfterBulkDelete ==
    [][\A key \in StoreKeys :
        /\ FirstAfterWipe("generateSummary", "summary", key)
           => (/\ resp'.status \in {200, 403, 404, 500}
               /\ resp'.source \notin {"cache", "store"}
               /\ resp'.status = 200 => (Fresh /\ SummaryOverwritten(key)))
        /\ FirstAfterWipe("generateQuiz", "quiz", key)
           => (/\ resp'.status \in {200, 403, 404, 500}
               /\ resp'.source \notin {"cache", "store"}
               /\ resp'.status = 200 => (Fresh /\ QuizOverwritten(key)))
      ]_vars

\* C7 as stated: that request always performs a fresh generation.
C7_AlwaysFreshAfterBulkDelete ==
    [][\A key \in StoreKeys :
        /\ FirstAfterWipe("generateSummary", "summary", key) => Fresh
        /\ FirstAfterWipe("generateQuiz", "quiz", key) => Fresh
      ]_vars

\* the first non-forced quiz request after a bulk delete of the quizzes, for a
\* key that was cached, has generated afresh
C7_Witness ==
    /\ resp.op = "generateQuiz"
    /\ ~resp.force
    /\ resp.afterWipe
    /\ resp.source = "fresh"
    /\ resp.generated = 1

(***************************************************************************)
(* CumulativeQuizService: generateCumulativeQuiz with its cache and its    *)
(* table. The language is used exactly as the caller passed it.            *)
(***************************************************************************)
CumulativeTtlSeconds == 604800

cumulativeKey(eventId, language) == <<"cumulative_quiz", eventId, language>>

\* language: string = 'en': the default stands in for an omitted argument only
LanguageOrDefault(language) ==
    IF language = Undefined THEN <<"e", "n">> ELSE language

\* String(id) as its decimal digits
RECURSIVE Digits(_)
Digits(n) == IF n < 10 THEN <<n>> ELSE Append(Digits(n \div 10), n % 10)

\* string comparison a < b, code unit by code unit
RECURSIVE StrLess(_, _)
StrLess(a, b) ==
    IF b = <<>> THEN FALSE
    ELSE IF a = <<>> THEN TRUE
    ELSE IF Head(a) # Head(b) THEN Head(a) < Head(b)
    ELSE StrLess(Tail(a), Tail(b))

\* Array.prototype.sort() without a comparator: by string value
RECURSIVE SortIds(_)
SortIds(ids) ==
    IF ids = <<>> THEN <<>>
    ELSE LET rest == SortIds(Tail(ids))
             x == Head(ids)
             before == SelectSeq(rest, LAMBDA y : ~StrLess(Digits(x), Digits(y)))
             after == SelectSeq(rest, LAMBDA y : StrLess(Digits(x), Digits(y)))
         IN  before \o <<x>> \o after

IdsOf(members) == [i \in DOMAIN members |-> members[i].id]

\* a validity check that accepts every artifact
isCacheValidAlways(tbl, rows, quiz) == TRUE

\* a validity check that compares the two id lists as they come
isCacheValidInOrder(tbl, rows, quiz) ==
    IdsOf(getSeriesEventsUpTo(tbl, rows, quiz.eventId)) = quiz.includedEventIds

\* a validity check that also refuses an artifact holding questions of a
\* member whose quiz row is gone
isCacheValidWithSources(tbl, rows, quiz) ==
    /\ SortIds(IdsOf(getSeriesEventsUpTo(tbl, rows, quiz.eventId)))
           = SortIds(quiz.includedEventIds)
    /\ \A k \in DOMAIN quiz.questions :
          <<quiz.questions[k].videoContext.eventId, quiz.language>> \in DOMAIN quizzes

\* isCacheValid: the ids now in the artifact's series up to its event, sorted,
\* against the artifact's ids, sorted
isCacheValid(tbl, rows, quiz) ==
    SortIds(IdsOf(getSeriesEventsUpTo(tbl, rows, quiz.eventId)))
        = SortIds(quiz.includedEventIds)

\* getCachedQuiz: {} for null, otherwise {the artifact}, from the cache or
\* the CumulativeQuiz that getCachedQuiz builds from the columns it selects
QuizColumns ==
    {"eventId", "seriesId", "language", "model", "questions", "includedEventIds",
     "videoCount", "processingTimeMs"}

RowToQuiz(row) == [f \in QuizColumns |-> row[f]]

\* else from the table
getCachedQuiz(c, tbl, eventId, language, t) ==
    IF CacheLive(c, cumulativeKey(eventId, language), t)
    THEN {c[cumulativeKey(eventId, language)].data}
    ELSE IF <<eventId, language>> \in DOMAIN tbl
    THEN {RowToQuiz(tbl[<<eventId, language>>])}
    ELSE {}

\* the cache after getCachedQuiz: a row found in the table is cached again
CacheAfterGetCachedQuiz(c, tbl, eventId, language, t) ==
    LET ck == cumulativeKey(eventId, language)
    IN  IF CacheLive(c, ck, t) THEN c
        ELSE IF <<eventId, language>> \in DOMAIN tbl
        THEN CacheAfterSet(CacheAfterRead(c, ck, t), ck,
                           RowToQuiz(tbl[<<eventId, language>>]),
                           {CumulativeTtlSeconds}, t)
        ELSE CacheAfterRead(c, ck, t)

\* an upsert that replaces the whole row
UpsertCumulativeReplace(tbl, quiz) ==
    MapPut(tbl, <<quiz.eventId, quiz.language>>, quiz @@ NotModerated)

\* an upsert that on conflict leaves video_count as it was
UpsertCumulativeKeepCount(tbl, quiz) ==
    LET key == <<quiz.eventId, quiz.language>>
    IN  IF key \in DOMAIN tbl
        THEN [tbl EXCEPT ![key].questions = quiz.questions,
                         ![key].includedEventIds = quiz.includedEventIds,
                         ![key].processingTimeMs = quiz.processingTimeMs]
        ELSE MapPut(tbl, key, quiz @@ NotModerated)

\* the INSERT ... ON CONFLICT of saveCumulativeQuiz: a row in conflict keeps
\* its series_id and model
UpsertCumulative(tbl, quiz) ==
    LET key == <<quiz.eventId, quiz.language>>
    IN  IF key \in DOMAIN tbl
        THEN [tbl EXCEPT ![key].questions = quiz.questions,
                         ![key].includedEventIds = quiz.includedEventIds,
                         ![key].videoCount = quiz.videoCount,
                         ![key].processingTimeMs = quiz.processingTimeMs]
        ELSE MapPut(tbl, key, quiz @@ NotModerated)

\* a lookup that does not ask for state = 'ready'
EventInSeriesAnyState(tbl, eventId) ==
    eventId \in DOMAIN tbl /\ tbl[eventId].series # "null"

\* WHERE id = $1 AND series IS NOT NULL AND state = 'ready'
EventInSeries(tbl, eventId) ==
    /\ eventId \in DOMAIN tbl
    /\ tbl[eventId].series # "null"
    /\ tbl[eventId].state = "ready"

ProcessingTimes == {1, 2}

CumReply(eventId, language, force, outcome, quiz, stored) ==
    [op |-> "generateCumulativeQuiz", eventId |-> eventId, language |-> language,
     force |-> force, outcome |-> outcome, quiz |-> quiz, stored |-> stored]

\* steps 2 to 6 of generateCumulativeQuiz, after the cache c was left by step 1
Regenerate(c, eventId, language, lang, forceRegenerate) ==
    IF ~EventInSeries(events, eventId)
    THEN /\ resp' = CumReply(eventId, language, forceRegenerate, "NotFound", {}, 0)
         /\ cache' = c
         /\ UNCHANGED cumulative
    ELSE \E rows \in RowOrders(events, events[eventId].series),
            processingTimeMs \in ProcessingTimes :
         LET seriesEvents == getSeriesEventsUpTo(events, rows, eventId)
             individual == [i \in DOMAIN seriesEvents |->
                 getOrGenerateIndividualQuiz(quizzes, seriesEvents[i].id, lang)]
             quiz == [eventId |-> eventId,
                      seriesId |-> events[eventId].series,
                      language |-> lang,
                      model |-> "gpt-4",
                      questions |-> combineQuizzes(individual, seriesEvents),
                      includedEventIds |-> IdsOf(seriesEvents),
                      videoCount |-> Len(seriesEvents),
                      processingTimeMs |-> processingTimeMs]
         IN  IF seriesEvents = <<>>
             THEN /\ resp' = CumReply(eventId, language, forceRegenerate,
                                      "EmptySeries", {}, 0)
                  /\ cache' = c
                  /\ UNCHANGED cumulative
             ELSE /\ cumulative' = UpsertCumulative(cumulative, quiz)
                  /\ cache' = CacheAfterSet(c, cumulativeKey(eventId, lang), quiz,
                                            {CumulativeTtlSeconds}, now)
                  /\ resp' = CumReply(eventId, language, forceRegenerate,
                                      "fresh", {quiz}, 1)

\* generateCumulativeQuiz(eventId, language, forceRegenerate)
generateCumulativeQuiz(eventId, language, forceRegenerate) ==
    LET lang == LanguageOrDefault(language)
        ck == cumulativeKey(eventId, lang)
        cached == getCachedQuiz(cache, cumulative, eventId, lang, now)
        afterLookup == CacheAfterGetCachedQuiz(cache, cumulative, eventId, lang, now)
    IN  /\ ~forceRegenerate => hits + misses < MaxReads
        /\ hits' = IF forceRegenerate THEN hits
                   ELSE HitsAfterGet(cache, ck, now, hits)
        /\ misses' = IF forceRegenerate THEN misses
                     ELSE MissesAfterGet(cache, ck, now, misses)
        /\ IF forceRegenerate
           THEN Regenerate(cache, eventId, language, lang, forceRegenerate)
           ELSE IF cached = {}
           THEN Regenerate(afterLookup, eventId, language, lang, forceRegenerate)
           ELSE \E quiz \in cached : \E rows \in RowOrders(events, quiz.seriesId) :
                IF isCacheValid(events, rows, quiz)
                THEN /\ resp' = CumReply(eventId, language, forceRegenerate,
                                         "cached", {quiz}, 0)
                     /\ cache' = afterLookup
                     /\ UNCHANGED cumulative
                ELSE Regenerate(afterLookup, eventId, language, lang, forceRegenerate)
        /\ UNCHANGED <<flightVars, now, sets, transcripts, summaries, quizzes, events, aiConfig,
                       wiped>>

(***************************************************************************)
(* SpecCum: generateCumulativeQuiz while the series changes                *)
(***************************************************************************)
CumEventIds == {9, 10, 30}
CumTargets == {30}
CumLanguages == {<<"d", "e">>}

\* three events of series s1, created in the order 9, 10, 30, none with an
\* order in its metadata
CumEvents ==
    [id \in CumEventIds |->
        [series |-> "s1", state |-> "ready", order |-> {},
         created |-> CASE id = 9 -> 1 [] id = 10 -> 2 [] OTHER -> 3,
         title |-> TitleOf(id)]]

\* per-event quizzes stored under the normalized language
CumQuizzes ==
    [key \in {<<9, German>>, <<10, German>>} |->
        [quiz_data |-> [questions |-> JsonArray(
            <<[question |-> IF key[1] = 9 THEN "qa" ELSE "qb", timestamp |-> {}]>>)]]]

InitCum ==
    /\ now = 0
    /\ jobs = EmptyMap
    /\ calls = EmptyMap
    /\ faults = <<>>
    /\ queue = QueueNotStarted
    /\ contentFlags = EmptyMap
    /\ flagged = EmptyMap
    /\ cache = EmptyMap
    /\ hits = 0
    /\ misses = 0
    /\ sets = EmptyMap
    /\ transcripts = EmptyMap
    /\ summaries = EmptyMap
    /\ quizzes = CumQuizzes
    /\ cumulative = EmptyMap
    /\ events = CumEvents
    /\ aiConfig = EmptyMap
    /\ resp = NoCall
    /\ wiped = EmptyMap

\* an event of the series becomes ready, or stops being ready
SetEventState(id, state) ==
    /\ events[id].state # state
    /\ events' = [events EXCEPT ![id].state = state]
    /\ resp' = [op |-> "setEventState"]
    /\ UNCHANGED <<flightVars, now, cacheVars, sets, transcripts, summaries, quizzes, cumulative,
                   aiConfig, wiped>>

\* an event's metadata gets an order, or loses it
SetEventOrder(id, order) ==
    /\ events[id].order # order
    /\ events' = [events EXCEPT ![id].order = order]
    /\ resp' = [op |-> "setEventOrder"]
    /\ UNCHANGED <<flightVars, now, cacheVars, sets, transcripts, summaries, quizzes, cumulative,
                   aiConfig, wiped>>

\* an event is moved to another series
SetEventSeries(id, seriesId) ==
    /\ events[id].series # seriesId
    /\ events' = [events EXCEPT ![id].series = seriesId]
    /\ resp' = [op |-> "setEventSeries"]
    /\ UNCHANGED <<flightVars, now, cacheVars, sets, transcripts, summaries, quizzes, cumulative,
                   aiConfig, wiped>>

\* cache.clear(), as the bulk deletes call it
ClearCache ==
    /\ cache' = EmptyMap
    /\ hits' = 0
    /\ misses' = 0
    /\ resp' = [op |-> "clear"]
    /\ UNCHANGED <<flightVars, now, sets, storeVars, wiped>>

NextCum ==
    \/ \E e \in CumTargets, l \in CumLanguages, f \in BOOLEAN :
           generateCumulativeQuiz(e, l, f)
    \/ \E id \in {9, 30}, st \in {"ready", "processing"} : SetEventState(id, st)
    \/ \E o \in {{}, {1}} : SetEventOrder(10, o)
    \/ \E sr \in SeriesIds : SetEventSeries(30, sr)
    \/ ClearCache

SpecCum == InitCum /\ [][NextCum]_vars

(***************************************************************************)
(* SpecCumLang: generateCumulativeQuiz with every kind of language         *)
(* argument, for a series that does not change                             *)
(***************************************************************************)
LangArguments == {<<"D", "E">>, <<"d", "e">>, <<>>, Undefined}

NextCumLang ==
    \/ \E e \in CumTargets, l \in LangArguments, f \in BOOLEAN :
           generateCumulativeQuiz(e, l, f)
    \/ ClearCache

SpecCumLang == InitCum /\ [][NextCumLang]_vars

(***************************************************************************)
(* Claims about generateCumulativeQuiz                                     *)
(***************************************************************************)
Range(seq) == {seq[i] : i \in DOMAIN seq}

\* the step is a call of generateCumulativeQuiz: only it writes this response
CumCalled(eventId, force) ==
    /\ resp'.op = "generateCumulativeQuiz"
    /\ resp'.eventId = eventId
    /\ resp'.force = force

\* the ids membersUpTo(seriesId, eventId) returns now
MembersNow(seriesId, eventId) ==
    LET rows == CHOOSE r \in RowOrders(events, seriesId) : TRUE
    IN  IdsOf(getSeriesEventsUpTo(events, rows, eventId))

\* the artifact was regenerated from the event's present series and upserted
RegeneratedAndUpserted(eventId, lang) ==
    LET key == <<eventId, lang>>
        ids == MembersNow(events[eventId].series, eventId)
    IN  /\ resp'.outcome = "fresh"
        /\ resp'.stored = 1
        /\ \A q \in resp'.quiz : q.includedEventIds = ids /\ q.videoCount = Len(ids)
        /\ key \in DOMAIN cumulative'
        /\ cumulative'[key].includedEventIds = ids
        /\ \A q \in resp'.quiz : cumulative'[key].questions = q.questions

\* C4 (amended): a non-forced generateCumulativeQuiz that finds a cached or
\* stored artifact returns it unchanged, without a store write, when the ids
\* membersUpTo(cached.seriesId, subjectId) returns now equal its
\* includedEventIds as sets; when the sets differ it regenerates and upserts
\* the artifact if the subject is still a ready event of a series, and
\* otherwise fails with NotFound and writes nothing to the store.
C4_SnapshotValidity ==
    [][\A e \in CumTargets :
        CumCalled(e, FALSE) =>
            LET lang == LanguageOrDefault(resp'.language)
                cached == getCachedQuiz(cache, cumulative, e, lang, now)
            IN  \A q \in cached :
                    IF Range(MembersNow(q.seriesId, e)) = Range(q.includedEventIds)
                    THEN /\ resp'.outcome = "cached"
                         /\ resp'.quiz = {q}
                         /\ cumulative' = cumulative
                    ELSE IF EventInSeries(events, e)
                    THEN RegeneratedAndUpserted(e, lang)
                    ELSE /\ resp'.outcome = "NotFound"
                         /\ cumulative' = cumulative
      ]_vars

\* C4 as stated: whenever the two sets differ the artifact is regenerated and
\* upserted.
C4_DifferentSetsRegenerate ==
    [][\A e \in CumTargets :
        CumCalled(e, FALSE) =>
            LET lang == LanguageOrDefault(resp'.language)
                cached == getCachedQuiz(cache, cumulative, e, lang, now)
            IN  \A q \in cached :
                    IF Range(MembersNow(q.seriesId, e)) = Range(q.includedEventIds)
                    THEN /\ resp'.outcome = "cached"
                         /\ resp'.quiz = {q}
                         /\ cumulative' = cumulative
                    ELSE /\ resp'.outcome = "fresh"
                         /\ resp'.stored = 1
      ]_vars

\* a non-forced call has returned the artifact with the ids 9, 10, 30 although
\* the series now lists them as 10, 9, 30
C4_Witness ==
    /\ resp.op = "generateCumulativeQuiz"
    /\ ~resp.force
    /\ resp.outcome = "cached"
    /\ \E q \in resp.quiz :
           /\ q.includedEventIds = <<9, 10, 30>>
           /\ MembersNow(q.seriesId, resp.eventId) = <<10, 9, 30>>

\* C9: every transcript, summary, quiz and cumulative-quiz row and every cache
\* entry is keyed by the normalized language code, so two codes that differ
\* only in letter case address the same row and the same cache entry.
C9_KeysAreNormalized ==
    /\ \A key \in DOMAIN transcripts \cup DOMAIN summaries \cup DOMAIN quizzes
                      \cup DOMAIN cumulative :
           key[2] = normalizeLanguageCode(key[2])
    /\ \A ck \in DOMAIN cache : ck[3] = normalizeLanguageCode(ck[3])

\* C10: generateCumulativeQuiz with an omitted or empty language fails with a
\* validation error before any store or cache access, and no default language
\* takes the place of the missing one.
C10_MissingLanguageRejected ==
    [][\A e \in CumTargets, f \in BOOLEAN :
        (CumCalled(e, f) /\ Falsy(resp'.language))
            => /\ resp'.outcome = "ValidationError"
               /\ UNCHANGED <<cache, hits, misses, cumulative>>
      ]_vars

(***************************************************************************)
(* queue.service: the BullMQ queues ai-summaries and ai-quizzes and their  *)
(* workers. A job is added with attempts: 3; a worker runs the processor   *)
(* of one waiting job as one step. When the processor throws, BullMQ puts  *)
(* the job back (after its backoff delay) while attemptsMade is below      *)
(* attempts, and moves it to failed otherwise.                             *)
(***************************************************************************)
JobAttempts == 3
MaxJobs == 2             \* SpecQueue: at most this many jobs are added

CaptionAttempts == 2
BatchAttempts == 1

\* the attempts option that each enqueue function passes to add()
AttemptsOf(name) ==
    CASE name = "extract-caption" -> CaptionAttempts
      [] name = "extract-batch" -> BatchAttempts
      [] OTHER -> JobAttempts

NewJob(name, eventId, language, forceRegenerate) ==
    [name |-> name, eventId |-> eventId, language |-> language,
     forceRegenerate |-> forceRegenerate, attempts |-> AttemptsOf(name),
     attemptsMade |-> 0, state |-> "waiting", failedReason |-> "",
     returned |-> "", generated |-> 0, stored |-> 0]

\* the processor returned: the job is completed
JobCompleted(job, returned, generated) ==
    [job EXCEPT !.attemptsMade = @ + 1, !.state = "completed",
                !.returned = returned, !.generated = @ + generated]

\* a failure handling that always puts the job back
JobFailedRetryForever(job, reason, generated) ==
    [job EXCEPT !.attemptsMade = @ + 1, !.state = "waiting",
                !.failedReason = reason, !.generated = @ + generated]

\* the processor threw: retried while attempts are left
JobFailed(job, reason, generated) ==
    [job EXCEPT !.attemptsMade = @ + 1,
                !.state = IF job.attemptsMade + 1 < job.attempts
                          THEN "waiting" ELSE "failed",
                !.failedReason = reason, !.generated = @ + generated]

\* what await job.updateProgress(100) does after the row and the cache entry
\* are written: it returns, or the Redis command rejects and the processor
\* rethrows
ProgressOutcomes == {"ok", "Connection is closed."}

\* the job after an attempt that wrote the store and then reported progress
AfterStored(job, returned, progress) ==
    [(IF progress = "ok" THEN JobCompleted(job, returned, 1)
      ELSE JobFailed(job, progress, 1)) EXCEPT !.stored = @ + 1]

\* what connection.connect() and connection.ping() can do at startup
RedisOutcomes == {"connected", "refused"}

\* initializeQueues() that sets queueEnabled before it connects
initializeQueuesEager(q, redis) ==
    IF redis = "connected"
    THEN [started |-> TRUE, enabled |-> TRUE, connection |-> "open",
          queues |-> QueueNames, workers |-> QueueNames, closed |-> FALSE]
    ELSE [q EXCEPT !.started = TRUE, !.enabled = TRUE, !.connection = "null"]

\* initializeQueues(): the module's variables when it returns. The queues,
\* the workers and queueEnabled = true come after connect() and ping(); the
\* catch block sets queueEnabled = false, quits and drops the connection
initializeQueues(q, redis) ==
    IF redis = "connected"
    THEN [started |-> TRUE, enabled |-> TRUE, connection |-> "open",
          queues |-> QueueNames, workers |-> QueueNames, closed |-> FALSE]
    ELSE [q EXCEPT !.started = TRUE, !.enabled = FALSE, !.connection = "null"]

isQueueEnabled(q) == q.enabled

\* the reply of a queue endpoint or of start()
QueueReply(op, status, message, touched) ==
    [Reply(op, {}, FALSE, status, "none", {}, 0, 0, 0)
         EXCEPT !.message = message, !.stored = touched]

\* start(): initializeQueues() is awaited once, before app.listen()
InitializeQueues(redis) ==
    /\ ~queue.started
    /\ queue' = initializeQueues(queue, redis)
    /\ resp' = QueueReply("initializeQueues",
                          IF isQueueEnabled(queue') THEN 200 ELSE 503,
                          IF isQueueEnabled(queue') THEN "true" ELSE "false", 0)
    /\ UNCHANGED <<jobs, calls, faults, contentFlags, flagged, now, cacheVars, sets,
                   storeVars, wiped>>

Unavailable == "Queue system is not available. Redis is not connected."

\* POST /api/queue/<kind>/:eventId and enqueue<Kind>Generation(): 503 when
\* isQueueEnabled() is false, 400 without a language, 500 when the closed
\* queue rejects add(), and the job is added otherwise
Enqueue(op, name, queueName, eventId, language, forceRegenerate) ==
    /\ queue.started
    /\ IF ~isQueueEnabled(queue)
       THEN /\ resp' = QueueReply(op, 503, "Queue system unavailable", 0)
            /\ UNCHANGED jobs
       ELSE IF Falsy(language)
       THEN /\ resp' = QueueReply(op, 400, "Language is required", 0)
            /\ UNCHANGED jobs
       ELSE IF queueName \notin queue.queues
       THEN /\ resp' = QueueReply(op, 500, Unavailable, 0)
            /\ UNCHANGED jobs
       ELSE IF queue.closed
       THEN /\ resp' = QueueReply(op, 500, "Connection is closed.", 1)
            /\ UNCHANGED jobs
       ELSE /\ ~LanguageRejected(language)
            /\ Cardinality(DOMAIN jobs) < MaxJobs
            /\ jobs' = MapPut(jobs, Cardinality(DOMAIN jobs) + 1,
                              NewJob(name, eventId, normalizeLanguageCode(language),
                                     forceRegenerate))
            /\ UNCHANGED resp
    /\ UNCHANGED <<adminVars, calls, faults, now, cacheVars, sets, storeVars, wiped>>

\* POST /api/queue/summary/:eventId, enqueueSummaryGeneration()
EnqueueSummaryGeneration(eventId, language, forceRegenerate) ==
    Enqueue("queueSummary", "generate-summary", "ai-summaries", eventId, language,
            forceRegenerate)

\* POST /api/queue/quiz/:eventId, enqueueQuizGeneration()
EnqueueQuizGeneration(eventId, language, forceRegenerate) ==
    Enqueue("queueQuiz", "generate-quiz", "ai-quizzes", eventId, language,
            forceRegenerate)

\* POST /api/queue/caption/:eventId, enqueueCaptionExtraction()
EnqueueCaptionExtraction(eventId, language) ==
    Enqueue("queueCaption", "extract-caption", "caption-extraction", eventId, language,
            FALSE)

\* POST /api/queue/caption-batch, enqueueBatchCaptionExtraction(limit): the
\* job's data is the limit, kept in the place of the event id
EnqueueBatchCaptionExtraction(limit) ==
    /\ queue.started
    /\ IF ~isQueueEnabled(queue)
       THEN /\ resp' = QueueReply("queueCaptionBatch", 503, "Queue system unavailable", 0)
            /\ UNCHANGED jobs
       ELSE IF "caption-extraction" \notin queue.queues
       THEN /\ resp' = QueueReply("queueCaptionBatch", 500, Unavailable, 0)
            /\ UNCHANGED jobs
       ELSE IF queue.closed
       THEN /\ resp' = QueueReply("queueCaptionBatch", 500, "Connection is closed.", 1)
            /\ UNCHANGED jobs
       ELSE /\ Cardinality(DOMAIN jobs) < MaxJobs
            /\ jobs' = MapPut(jobs, Cardinality(DOMAIN jobs) + 1,
                              NewJob("extract-batch", limit, <<>>, FALSE))
            /\ UNCHANGED resp
    /\ UNCHANGED <<adminVars, calls, faults, now, cacheVars, sets, storeVars, wiped>>

\* the processor of captionWorker, run for one attempt of a job: the
\* extractor reports success or failure in its result, or throws; what it
\* stores is not followed
CaptionOutcomes == {"completed", "failed", "throws"}

CaptionWorker(id) ==
    LET job == jobs[id]
    IN  /\ id \in DOMAIN jobs
        /\ "caption-extraction" \in queue.workers
        /\ ~queue.closed
        /\ job.name \in {"extract-caption", "extract-batch"}
        /\ job.state = "waiting"
        /\ \E outcome \in CaptionOutcomes :
               /\ job.name = "extract-batch" => outcome # "failed"
               /\ jobs' = [jobs EXCEPT ![id] =
                      IF outcome = "throws"
                      THEN JobFailed(job, "Caption extraction failed", 0)
                      ELSE JobCompleted(job, outcome, 0)]
        /\ UNCHANGED <<adminVars, calls, faults, now, cacheVars, sets, storeVars, resp,
                       wiped>>

\* GET /api/queue/stats, getQueueStats()
GetQueueStats ==
    /\ queue.started
    /\ IF ~isQueueEnabled(queue) \/ queue.queues # QueueNames
       THEN resp' = QueueReply("getQueueStats", 200, "enabled: false", 0)
       ELSE IF queue.closed
       THEN resp' = QueueReply("getQueueStats", 500, "Connection is closed.", 1)
       ELSE resp' = QueueReply("getQueueStats", 200, "enabled: true", 1)
    /\ UNCHANGED <<flightVars, now, cacheVars, sets, storeVars, wiped>>

\* closeQueues(), called by the SIGTERM and SIGINT handlers
CloseQueues ==
    /\ queue.started
    /\ ~queue.closed
    /\ IF ~isQueueEnabled(queue)
       THEN /\ resp' = QueueReply("closeQueues", 200, "", 0)
            /\ UNCHANGED queue
       ELSE /\ resp' = QueueReply("closeQueues", 200, "Queues closed successfully", 1)
            /\ queue' = [queue EXCEPT !.closed = TRUE, !.connection = "quit"]
    /\ UNCHANGED <<jobs, calls, faults, contentFlags, flagged, now, cacheVars, sets,
                   storeVars, wiped>>

\* a processor that never looks for an existing row
AlreadyExistsNever(job, tbl) == FALSE

\* if (!forceRegenerate) { existing = ...; if (existing) return skipped }
AlreadyExists(job, tbl) ==
    ~job.forceRegenerate /\ <<job.eventId, job.language>> \in DOMAIN tbl

\* the processor of summaryWorker, run for one attempt of a job
SummaryWorker(id) ==
    LET job == jobs[id]
        key == <<job.eventId, job.language>>
    IN  /\ id \in DOMAIN jobs
        /\ "ai-summaries" \in queue.workers
        /\ ~queue.closed
        /\ job.name = "generate-summary"
        /\ job.state = "waiting"
        /\ IF AlreadyExists(job, summaries)
           THEN /\ jobs' = [jobs EXCEPT ![id] = JobCompleted(job, "skipped", 0)]
                /\ UNCHANGED <<summaries, cache>>
           ELSE IF key \notin DOMAIN transcripts
           THEN /\ jobs' = [jobs EXCEPT ![id] = JobFailed(job, "No transcript found", 0)]
                /\ UNCHANGED <<summaries, cache>>
           ELSE \E result \in SummaryResults :
                IF ~result.ok
                THEN /\ jobs' = [jobs EXCEPT ![id] = JobFailed(job, errorMessage(result), 1)]
                     /\ UNCHANGED <<summaries, cache>>
                ELSE \E progress \in ProgressOutcomes :
                     /\ summaries' = saveSummary(summaries, key, result)
                     /\ cache' = CacheAfterSet(cache, summaryKey(job.eventId, job.language),
                                               result.content, {}, now)
                     /\ jobs' = [jobs EXCEPT ![id] = AfterStored(job, "completed", progress)]
        /\ UNCHANGED <<adminVars, calls, faults, now, hits, misses, sets, transcripts, quizzes, cumulative,
                       events, aiConfig, resp, wiped>>

\* the processor of quizWorker, run for one attempt of a job
QuizWorker(id) ==
    LET job == jobs[id]
        key == <<job.eventId, job.language>>
    IN  /\ id \in DOMAIN jobs
        /\ "ai-quizzes" \in queue.workers
        /\ ~queue.closed
        /\ job.name = "generate-quiz"
        /\ job.state = "waiting"
        /\ IF AlreadyExists(job, quizzes)
           THEN /\ jobs' = [jobs EXCEPT ![id] = JobCompleted(job, "skipped", 0)]
                /\ UNCHANGED <<quizzes, cache>>
           ELSE IF key \notin DOMAIN transcripts
           THEN /\ jobs' = [jobs EXCEPT ![id] = JobFailed(job, "No transcript found", 0)]
                /\ UNCHANGED <<quizzes, cache>>
           ELSE \E result \in QuizResults :
                IF ~result.ok
                THEN /\ jobs' = [jobs EXCEPT ![id] = JobFailed(job, errorMessage(result), 1)]
                     /\ UNCHANGED <<quizzes, cache>>
                ELSE \E progress \in ProgressOutcomes :
                     /\ quizzes' = saveQuiz(quizzes, key, result)
                     /\ cache' = CacheAfterSet(cache, quizCacheKey(job.eventId, job.language),
                                               result.quizData, {}, now)
                     /\ jobs' = [jobs EXCEPT ![id] = AfterStored(job, "completed", progress)]
        /\ UNCHANGED <<adminVars, calls, faults, now, hits, misses, sets, transcripts, summaries, cumulative,
                       events, aiConfig, resp, wiped>>

(***************************************************************************)
(* SpecQueue: jobs are added and run while transcripts come and go         *)
(***************************************************************************)
QueueLanguages == {<<"D", "E">>, <<"d", "e">>}

NextQueue ==
    \/ \E redis \in RedisOutcomes : InitializeQueues(redis)
    \/ \E e \in HttpEventIds, l \in QueueLanguages, f \in BOOLEAN :
           EnqueueSummaryGeneration(e, l, f)
    \/ \E e \in HttpEventIds, l \in QueueLanguages, f \in BOOLEAN :
           EnqueueQuizGeneration(e, l, f)
    \/ \E id \in 1..MaxJobs : SummaryWorker(id)
    \/ \E id \in 1..MaxJobs : QuizWorker(id)
    \/ \E e \in HttpEventIds, l \in QueueLanguages, c \in TranscriptContents :
           UploadTranscript(e, l, c)
    \/ DeleteAllTranscripts

SpecQueue == Init /\ [][NextQueue]_vars

(***************************************************************************)
(* SpecDegraded: the service starts with or without Redis and serves the   *)
(* queue endpoints and the synchronous summary endpoints                   *)
(***************************************************************************)
NextDegraded ==
    \/ \E redis \in RedisOutcomes : InitializeQueues(redis)
    \/ \E e \in HttpEventIds, l \in HttpLanguages, f \in BOOLEAN :
           EnqueueSummaryGeneration(e, l, f)
    \/ \E e \in HttpEventIds, l \in HttpLanguages, f \in BOOLEAN :
           EnqueueQuizGeneration(e, l, f)
    \/ \E e \in HttpEventIds, l \in HttpLanguages : EnqueueCaptionExtraction(e, l)
    \/ GetQueueStats
    \/ CloseQueues
    \/ \E e \in HttpEventIds, l \in HttpLanguages, f \in BOOLEAN : GenerateSummary(e, l, f)
    \/ \E e \in HttpEventIds, l \in HttpLanguages : GetSummary(e, l)
    \/ \E e \in HttpEventIds, l \in HttpLanguages, c \in TranscriptContents :
           UploadTranscript(e, l, c)

SpecDegraded == Init /\ [][NextDegraded]_vars

\* initializeQueues() has returned false
Degraded == queue.started /\ ~isQueueEnabled(queue)

QueueOps == {"queueSummary", "queueQuiz", "queueCaption"}

\* C21: when Redis is unavailable at startup initializeQueues returns false
\* and leaves isQueueEnabled() false; from then on every enqueue reports
\* unavailable without touching a queue, getQueueStats reports enabled =
\* false, closeQueues changes nothing and the synchronous summary endpoint
\* still generates; and isQueueEnabled() always implies that all three
\* queues and workers exist
C21_DegradedMode ==
    [][/\ isQueueEnabled(queue')
           => queue'.queues = QueueNames /\ queue'.workers = QueueNames
       /\ (~queue.started /\ queue'.started /\ queue'.connection = "null")
           => /\ ~isQueueEnabled(queue')
              /\ resp'.message = "false"
              /\ queue'.queues = {} /\ queue'.workers = {}
       /\ (Degraded /\ resp' # resp)
           => /\ Degraded'
              /\ UNCHANGED <<queue, jobs>>
              /\ resp'.op \in QueueOps
                     => resp'.status = 503 /\ resp'.stored = 0
              /\ resp'.op = "getQueueStats"
                     => resp'.message = "enabled: false" /\ resp'.stored = 0
              /\ resp'.op = "closeQueues" => resp'.stored = 0
              /\ resp'.op = "generateSummary"
                     => /\ resp'.status \in {200, 400, 403, 404, 500}
                        /\ (/\ resp'.key # {}
                            /\ \A k \in resp'.key :
                                   /\ k \in DOMAIN transcripts
                                   /\ resp'.force \/ k \notin DOMAIN summaries)
                           => resp'.generated = 1]_vars

\* in degraded mode an enqueue was refused and a summary was generated
C21_Witness ==
    /\ Degraded
    /\ resp.op = "generateSummary" /\ resp.status = 200 /\ resp.source = "fresh"
    /\ jobs = EmptyMap

\* in degraded mode an enqueue request was answered 503
C21_WitnessRefused ==
    /\ Degraded
    /\ resp.op = "queueSummary" /\ resp.status = 503

\* job id made an attempt in this step
Attempted(id) ==
    /\ id \in DOMAIN jobs
    /\ jobs'[id].attemptsMade = jobs[id].attemptsMade + 1

\* C11: an attempt of a queued job that needs to generate and finds no
\* transcript fails with "No transcript found" without invoking the Generator
\* and without a store or cache write, and the job is not run again
C11_NotFoundIsFinal ==
    [][\A id \in 1..MaxJobs :
          (Attempted(id) /\ jobs'[id].failedReason = "No transcript found"
                         /\ jobs'[id].state # "completed")
          => /\ jobs'[id].state = "failed"
             /\ jobs'[id].generated = jobs[id].generated
             /\ UNCHANGED <<cache, storeVars>>]_vars

(***************************************************************************)
(* Claims about what a generate request writes                             *)
(***************************************************************************)
\* the entries a get() would return
LiveView(c, t) == [k \in {x \in DOMAIN c : CacheLive(c, x, t)} |-> c[k]]

SummaryFailures == {r.message : r \in {x \in SummaryResults : ~x.ok}}
QuizFailures == {r.message : r \in {x \in QuizResults : ~x.ok}}

\* the request invoked the generator and the generator threw
GeneratorFailed == resp'.generated = 1 /\ resp'.status # 200

OtherEntriesKept(ck) ==
    \A k \in (DOMAIN cache \cup DOMAIN cache') \ {ck} :
        k \in DOMAIN cache /\ k \in DOMAIN cache' /\ cache'[k] = cache[k]

\* C13: a generate request that generates successfully writes the store once
\* (the row of its key) and the cache once (the entry of its key); a request
\* answered from the cache or from the store writes neither.
C13_WritesPerRequest ==
    [][\A key \in StoreKeys, f \in BOOLEAN :
        /\ (Called("generateSummary", f, key) /\ resp'.status = 200)
           => IF resp'.generated = 1
              THEN /\ SummaryOverwritten(key)
                   /\ summaries' = MapPut(summaries, key, summaries'[key])
                   /\ UNCHANGED <<transcripts, quizzes, cumulative, events, aiConfig>>
                   /\ OtherEntriesKept(SummaryCacheKey(key))
              ELSE /\ resp'.source \in {"cache", "store"}
                   /\ resp'.stored = 0
                   /\ resp'.cacheSet = 0
                   /\ UNCHANGED <<cache, storeVars>>
        /\ (Called("generateQuiz", f, key) /\ resp'.status = 200)
           => IF resp'.generated = 1
              THEN /\ QuizOverwritten(key)
                   /\ quizzes' = MapPut(quizzes, key, quizzes'[key])
                   /\ UNCHANGED <<transcripts, summaries, cumulative, events, aiConfig>>
                   /\ OtherEntriesKept(QuizCacheKey(key))
              ELSE /\ resp'.source \in {"cache", "store"}
                   /\ resp'.stored = 0
                   /\ resp'.cacheSet = 0
                   /\ UNCHANGED <<cache, storeVars>>
      ]_vars

\* a non-forced quiz request has been answered from the cache entry that an
\* earlier generation wrote, and a summary row exists as well
C13_Witness ==
    /\ resp.op = "generateQuiz"
    /\ ~resp.force
    /\ resp.source = "cache"
    /\ resp.stored = 0
    /\ hits > 0
    /\ \E key \in resp.key :
           /\ resp.payload = {quizzes[key].quiz_data}
           /\ key \in DOMAIN summaries

(***************************************************************************)
(* Concurrent generate requests. A handler is suspended at each await:     *)
(* while the generator runs ("generating"), while the upsert runs          *)
(* ("saving") and between the upsert and cache.set ("caching"). The checks *)
(* before the generator call run as the first step of the request. The     *)
(* responses are not recorded here.                                        *)
(***************************************************************************)
MaxCalls == 2            \* SpecRace: at most this many requests are in progress

\* a request joins a generation already running for its key
AfterTranscriptJoin(cs, op, key) ==
    IF \E c \in DOMAIN cs : cs[c].op = op /\ cs[c].key = key /\ cs[c].pc = "generating"
    THEN "joined"
    ELSE "generating"

\* const result = await openai.generateSummary(...) / generateQuiz(...):
\* the request calls the generator itself, whatever else is in progress
AfterTranscript(cs, op, key) == "generating"

NoResult == [ok |-> FALSE]

\* the request arrives (it takes the first free call id) and runs up to its
\* generator call, or to its response
BeginGenerate(id, op, eventId, language, forceRegenerate) ==
    LET lang == normalizeLanguageCode(language)
        key == <<eventId, lang>>
        ck == quizCacheKey(eventId, lang)
        reads == op = "generateQuiz" /\ ~forceRegenerate
        cached == CacheGetResult(cache, ck, now)
        enabled == IF op = "generateSummary" THEN isFeatureEnabled(aiConfig)
                   ELSE quizConfigTruthy(aiConfig)
    IN  /\ id \notin DOMAIN calls
        /\ \A other \in 1..(id - 1) : other \in DOMAIN calls
        /\ ~LanguageRejected(language)
        /\ IF ~enabled
           THEN UNCHANGED <<calls, cacheVars>>
           ELSE /\ reads => hits + misses < MaxReads
                /\ hits' = IF reads THEN HitsAfterGet(cache, ck, now, hits) ELSE hits
                /\ misses' = IF reads THEN MissesAfterGet(cache, ck, now, misses) ELSE misses
                /\ cache' = IF reads THEN CacheAfterRead(cache, ck, now) ELSE cache
                /\ IF op = "generateSummary" /\ ~forceRegenerate /\ key \in DOMAIN summaries
                   THEN UNCHANGED calls
                   ELSE IF reads /\ cached.hit
                   THEN UNCHANGED calls
                   ELSE IF key \notin DOMAIN transcripts
                   THEN UNCHANGED calls
                   ELSE calls' = MapPut(calls, id,
                                        [op |-> op, key |-> key,
                                         pc |-> AfterTranscript(calls, op, key),
                                         result |-> NoResult])
        /\ UNCHANGED <<adminVars, jobs, faults, now, sets, storeVars, resp, wiped>>

\* the generator returns or throws
GeneratorReturns(id) ==
    /\ id \in DOMAIN calls
    /\ calls[id].pc = "generating"
    /\ \E result \in IF calls[id].op = "generateSummary" THEN SummaryResults
                     ELSE QuizResults :
          IF result.ok
          THEN calls' = [calls EXCEPT ![id].pc = "saving", ![id].result = result]
          ELSE calls' = MapDrop(calls, {id})
    /\ UNCHANGED <<adminVars, jobs, faults, now, cacheVars, sets, storeVars, resp, wiped>>

\* the upsert of the generated artifact is executed
StoreWritten(id) ==
    /\ id \in DOMAIN calls
    /\ calls[id].pc = "saving"
    /\ IF calls[id].op = "generateSummary"
       THEN /\ summaries' = saveSummary(summaries, calls[id].key, calls[id].result)
            /\ UNCHANGED quizzes
       ELSE /\ quizzes' = saveQuiz(quizzes, calls[id].key, calls[id].result)
            /\ UNCHANGED summaries
    /\ calls' = [calls EXCEPT ![id].pc = "caching"]
    /\ UNCHANGED <<adminVars, jobs, faults, now, cacheVars, sets, transcripts, cumulative, events,
                   aiConfig, resp, wiped>>

\* cache.set of the generated artifact, and the response
CacheWritten(id) ==
    LET call == calls[id]
        summary == call.op = "generateSummary"
        ck == IF summary THEN summaryKey(call.key[1], call.key[2])
              ELSE quizCacheKey(call.key[1], call.key[2])
        payload == IF summary THEN call.result.content ELSE call.result.quizData
    IN  /\ id \in DOMAIN calls
        /\ call.pc = "caching"
        /\ cache' = CacheAfterSet(cache, ck, payload, {}, now)
        /\ calls' = MapDrop(calls, {id})
        /\ UNCHANGED <<adminVars, jobs, faults, now, hits, misses, sets, storeVars, resp, wiped>>

(***************************************************************************)
(* SpecRace: requests for one event with a transcript, handled concurrently *)
(***************************************************************************)
GenerateOps == {"generateSummary", "generateQuiz"}

InitRace ==
    /\ now = 0
    /\ jobs = EmptyMap
    /\ calls = EmptyMap
    /\ faults = <<>>
    /\ queue = QueueNotStarted
    /\ contentFlags = EmptyMap
    /\ flagged = EmptyMap
    /\ cache = EmptyMap
    /\ hits = 0
    /\ misses = 0
    /\ sets = EmptyMap
    /\ resp = NoCall
    /\ wiped = [summary |-> {}, quiz |-> {}]
    /\ transcripts = [k \in {<<e, German>> : e \in HttpEventIds} |->
                         [content |-> "transcript-a", source |-> "manual_upload"]]
    /\ summaries = EmptyMap
    /\ quizzes = EmptyMap
    /\ cumulative = EmptyMap
    /\ events = EmptyMap
    /\ aiConfig = [k \in {"features_enabled", "quiz_enabled"} |-> "true"]

NextRace ==
    \/ \E id \in 1..MaxCalls, op \in GenerateOps, e \in HttpEventIds,
          l \in QueueLanguages, f \in BOOLEAN : BeginGenerate(id, op, e, l, f)
    \/ \E id \in 1..MaxCalls : GeneratorReturns(id)
    \/ \E id \in 1..MaxCalls : StoreWritten(id)
    \/ \E id \in 1..MaxCalls : CacheWritten(id)

SpecRace == InitRace /\ [][NextRace]_vars

(***************************************************************************)
(* Claims about concurrent generate requests                               *)
(***************************************************************************)
\* the requests whose generator invocation for this kind and key is running
InFlightIn(cs, op, key) ==
    {id \in DOMAIN cs : cs[id].op = op /\ cs[id].key = key /\ cs[id].pc = "generating"}

InFlight(op, key) == InFlightIn(calls, op, key)

\* C34: whenever no request is in progress, a live cache entry of a quiz
\* holds the quiz of the store row of its key, and there is no live entry for
\* a key without a row
C34_CacheMatchesStore ==
    calls = EmptyMap =>
        \A key \in StoreKeys :
            CacheLive(cache, QuizCacheKey(key), now)
            => /\ key \in DOMAIN quizzes
               /\ cache[QuizCacheKey(key)].data = quizzes[key].quiz_data

\* C14 as stated: for every kind and key at most one generator invocation is
\* in flight at any time.
C14_SingleFlight ==
    \A op \in GenerateOps, key \in StoreKeys : Cardinality(InFlight(op, key)) <= 1

\* C14 (amended): there is no single flight. Every request that gets past its
\* cache or store lookup and finds the transcript starts a generator invocation
\* of its own, also while an invocation for the same key is in flight; a
\* request has at most one invocation.
C14_EveryMissGenerates ==
    [][\A id \in 1..MaxCalls :
          (id \notin DOMAIN calls /\ id \in DOMAIN calls')
          => /\ calls'[id].pc = "generating"
             /\ InFlightIn(calls', calls'[id].op, calls'[id].key) =
                    InFlight(calls'[id].op, calls'[id].key) \cup {id}
      ]_vars

\* two generator invocations for the same quiz key are in flight
C14_Witness ==
    \E key \in StoreKeys : Cardinality(InFlight("generateQuiz", key)) = 2

\* the row is the output of one generation
SummaryRowOf(row, result) ==
    /\ result.ok
    /\ row.summary = result.content
    /\ row.model = result.model
    /\ row.processing_time_ms = result.processingTime

QuizRowOf(row, result) ==
    /\ result.ok
    /\ row.quiz_data = result.quizData
    /\ row.model = result.model
    /\ row.processing_time_ms = result.processingTime

\* request id has its upsert executed in this step
Upserts(id) ==
    /\ id \in DOMAIN calls
    /\ calls[id].pc = "saving"
    /\ id \in DOMAIN calls'
    /\ calls'[id].pc = "caching"

\* C15: however concurrent generate requests for one key interleave, the
\* table holds one row for the key; after each upsert the row's payload, model
\* and processing time are those of the upserting request's generation, and
\* at all times they are those of one single generation.
C15_LastUpsertWins ==
    [][/\ \A id \in 1..MaxCalls :
            Upserts(id)
            => IF calls[id].op = "generateSummary"
               THEN /\ SummaryRowOf(summaries'[calls[id].key], calls[id].result)
                    /\ summaries' = MapPut(summaries, calls[id].key,
                                           summaries'[calls[id].key])
                    /\ UNCHANGED quizzes
               ELSE /\ QuizRowOf(quizzes'[calls[id].key], calls[id].result)
                    /\ quizzes' = MapPut(quizzes, calls[id].key,
                                         quizzes'[calls[id].key])
                    /\ UNCHANGED summaries
       /\ \A key \in DOMAIN summaries' :
            \E result \in SummaryResults : SummaryRowOf(summaries'[key], result)
       /\ \A key \in DOMAIN quizzes' :
            \E result \in QuizResults : QuizRowOf(quizzes'[key], result)
      ]_vars

\* two requests for one summary key have both generated, with different
\* outputs, and both have upserted: the row is the output of one of them
C15_Witness ==
    \E a \in DOMAIN calls, b \in DOMAIN calls :
        /\ a # b
        /\ calls[a].op = "generateSummary" /\ calls[b].op = "generateSummary"
        /\ calls[a].key = calls[b].key
        /\ calls[a].pc = "caching" /\ calls[b].pc = "caching"
        /\ calls[a].result # calls[b].result
        /\ SummaryRowOf(summaries[calls[b].key], calls[b].result)

(***************************************************************************)
(* Step 4 of generateCumulativeQuiz: Promise.all over one read per member. *)
(* The reads are started together and complete in any order.               *)
(***************************************************************************)
\* results collected in the order of completion
promiseAllByCompletion(arrived, n) == [i \in 1..n |-> arrived[i].value]

\* Promise.all: the i-th result is the value of the i-th promise
promiseAll(arrived, n) ==
    [i \in 1..n |-> arrived[CHOOSE k \in DOMAIN arrived : arrived[k].position = i].value]

\* seriesEvents.map(e => this.getOrGenerateIndividualQuiz(e.id, language))
StartReads(ids) ==
    /\ calls = EmptyMap
    /\ resp.op = "none"
    /\ calls' = MapPut(calls, 1, [op |-> "generateCumulativeQuiz",
                                  members |-> MemberList(ids),
                                  pending |-> DOMAIN ids, arrived |-> <<>>])
    /\ UNCHANGED <<adminVars, jobs, faults, now, cacheVars, sets, storeVars, resp, wiped>>

\* the read for the member at this position completes
ReadCompletes(position) ==
    /\ 1 \in DOMAIN calls
    /\ position \in calls[1].pending
    /\ calls' = [calls EXCEPT
                    ![1].pending = @ \ {position},
                    ![1].arrived = Append(@,
                        [position |-> position,
                         value |-> getOrGenerateIndividualQuiz(
                                       quizzes, calls[1].members[position].id, German)])]
    /\ UNCHANGED <<adminVars, jobs, faults, now, cacheVars, sets, storeVars, resp, wiped>>

\* all reads have completed: step 5, combineQuizzes
MergeReads ==
    /\ 1 \in DOMAIN calls
    /\ calls[1].pending = {}
    /\ LET members == calls[1].members
           individual == promiseAll(calls[1].arrived, Len(members))
       IN  resp' = [op |-> "generateCumulativeQuiz", members |-> members,
                    completed |-> [k \in DOMAIN calls[1].arrived |->
                                      calls[1].arrived[k].position],
                    questions |-> combineQuizzes(individual, members)]
    /\ calls' = EmptyMap
    /\ UNCHANGED <<adminVars, jobs, faults, now, cacheVars, sets, storeVars, wiped>>

(***************************************************************************)
(* SpecGather: the reads of one call, for every small quiz table           *)
(***************************************************************************)
GatherQuizData ==
    {[questions |-> JsonAbsent],
     [questions |-> JsonArray(<<[question |-> "qa", timestamp |-> {12}]>>)],
     [questions |-> JsonArray(<<[question |-> "qb", timestamp |-> {}],
                                [question |-> "qa", timestamp |-> {12}]>>)]}

GatherTables ==
    UNION {[{<<id, German>> : id \in present} -> [quiz_data : GatherQuizData]] :
              present \in SUBSET EventIds}

InitGather ==
    /\ now = 0
    /\ jobs = EmptyMap
    /\ calls = EmptyMap
    /\ faults = <<>>
    /\ queue = QueueNotStarted
    /\ contentFlags = EmptyMap
    /\ flagged = EmptyMap
    /\ cache = EmptyMap
    /\ hits = 0
    /\ misses = 0
    /\ sets = EmptyMap
    /\ transcripts = EmptyMap
    /\ summaries = EmptyMap
    /\ quizzes \in GatherTables
    /\ cumulative = EmptyMap
    /\ events = EmptyMap
    /\ aiConfig = EmptyMap
    /\ resp = NoCall
    /\ wiped = EmptyMap

NextGather ==
    \/ \E ids \in MemberOrders : StartReads(ids)
    \/ \E position \in 1..Cardinality(EventIds) : ReadCompletes(position)
    \/ MergeReads

SpecGather == InitGather /\ [][NextGather]_vars

\* C16: whatever the order in which the per-member reads complete, the merged
\* list is the one obtained from the members' quizzes taken in member order:
\* the i-th block of questions is the i-th member's.
C16_CompletionOrderIrrelevant ==
    resp.op = "generateCumulativeQuiz" =>
        LET m == resp.members
            inOrder == [i \in DOMAIN m |->
                           getOrGenerateIndividualQuiz(quizzes, m[i].id, German)]
        IN  /\ resp.questions = combineQuizzes(inOrder, m)
            /\ Len(resp.questions) = CountBefore(m, Len(m) + 1)
            /\ \A i \in DOMAIN m : \A k \in DOMAIN SourceQuestions(m[i].id) :
                  /\ resp.questions[CountBefore(m, i) + k].videoContext.eventId = m[i].id
                  /\ resp.questions[CountBefore(m, i) + k].question
                         = SourceQuestions(m[i].id)[k].question

\* the reads completed last member first, and the members' quizzes differ
C16_Witness ==
    /\ resp.op = "generateCumulativeQuiz"
    /\ resp.completed = <<3, 1, 2>>
    /\ Len(SourceQuestions(resp.members[1].id)) = 2
    /\ Len(SourceQuestions(resp.members[2].id)) = 0
    /\ Len(SourceQuestions(resp.members[3].id)) = 1

(***************************************************************************)
(* More claims about generateCumulativeQuiz                                *)
(***************************************************************************)
\* the artifact's ids, count and back references agree
WellFormed(q) ==
    /\ q.includedEventIds # <<>>
    /\ q.videoCount = Len(q.includedEventIds)
    /\ \A k \in DOMAIN q.questions :
           q.questions[k].videoContext.eventId \in Range(q.includedEventIds)

\* C17: every cumulative artifact that generateCumulativeQuiz writes, as a
\* row or as a cache entry, has a non-empty includedEventIds, a videoCount
\* equal to their number and questions whose videoContext.eventId is one of
\* them; when it is generated, its includedEventIds are the member ids of the
\* subject's series up to the subject, in member order.
C17_ArtifactInvariant ==
    [][/\ \A key \in DOMAIN cumulative' : WellFormed(cumulative'[key])
       /\ \A ck \in DOMAIN cache' : WellFormed(cache'[ck].data)
       /\ \A e \in CumTargets, f \in BOOLEAN :
            (CumCalled(e, f) /\ resp'.outcome = "fresh")
            => LET ids == MembersNow(events[e].series, e)
                   key == <<e, resp'.language>>
               IN  /\ cumulative'[key].includedEventIds = ids
                   /\ cache'[cumulativeKey(e, resp'.language)].data.includedEventIds = ids
                   /\ \A q \in resp'.quiz : q.includedEventIds = ids
      ]_vars

\* an artifact was regenerated over an older row after the member order
\* changed: ids, count and back references follow the new order
C17_Witness ==
    /\ resp.op = "generateCumulativeQuiz"
    /\ resp.outcome = "fresh"
    /\ <<30, German>> \in DOMAIN cumulative
    /\ cumulative[<<30, German>>].includedEventIds = <<10, 9, 30>>
    /\ cumulative[<<30, German>>].videoCount = 3
    /\ Len(cumulative[<<30, German>>].questions) = 2
    /\ cumulative[<<30, German>>].questions[1].videoContext.eventId = 10
    /\ hits > 0

\* C19: generateCumulativeQuiz for a subject that is missing, not ready or in
\* no series fails with NotFound and leaves the table and the cache as they
\* were, forced or not, whatever artifact is cached or stored for the subject.
C19_NotFoundWritesNothing ==
    [][\A e \in CumTargets, f \in BOOLEAN :
        (CumCalled(e, f) /\ ~EventInSeries(events, e))
            => /\ resp'.outcome = "NotFound"
               /\ UNCHANGED cumulative
               /\ LiveView(cache', now) = LiveView(cache, now)
      ]_vars


\* the fields of an artifact that the claims compare
Snapshot(q) ==
    [seriesId |-> q.seriesId, includedEventIds |-> q.includedEventIds,
     videoCount |-> q.videoCount, questions |-> q.questions]

\* C35: the artifact getCachedQuiz rebuilds from the store row has the
\* seriesId, includedEventIds, videoCount and questions of the artifact
\* generateCumulativeQuiz has just returned for the key
C35_RowRoundTrips ==
    (resp.op = "generateCumulativeQuiz" /\ resp.outcome \in {"fresh", "cached"})
    => \A q \in resp.quiz :
          /\ <<q.eventId, q.language>> \in DOMAIN cumulative
          /\ Snapshot(RowToQuiz(cumulative[<<q.eventId, q.language>>])) = Snapshot(q)

\* the member sets getSeriesEventsUpTo can return now for the event's series
MemberSetsNow(eventId) ==
    {Range(IdsOf(getSeriesEventsUpTo(events, rows, eventId))) :
        rows \in RowOrders(events, events[eventId].series)}

\* C36: every artifact generateCumulativeQuiz returns, from the cache, the
\* table or a regeneration, lists exactly the members that
\* getSeriesEventsUpTo returns for the event during the call: after a change
\* of the membership no call returns an artifact with the members of before
C36_ReturnedMembershipIsCurrent ==
    [][\A e \in CumTargets, f \in BOOLEAN :
          (CumCalled(e, f) /\ resp'.outcome \in {"fresh", "cached"})
          => \A q \in resp'.quiz :
                /\ Range(q.includedEventIds) \in MemberSetsNow(e)
                /\ q.videoCount = Cardinality(Range(q.includedEventIds))
      ]_vars

\* an artifact made after event 9 had left the ready members was served from
\* the cache or the table by a later call
C36_Witness ==
    /\ resp.op = "generateCumulativeQuiz" /\ resp.outcome = "cached"
    /\ events[9].state = "processing"
    /\ events[30].series = "s1"
    /\ \A q \in resp.quiz : Range(q.includedEventIds) = {10, 30}

\* the questions of artifact q that come from member m
QuestionsFrom(q, m) ==
    {k \in DOMAIN q.questions : q.questions[k].videoContext.eventId = m}

MaxFaults == 1           \* SpecCumFail: at most this many queries fail

\* the queries of a call that can be made to fail here
FailingQueries == {"getCachedQuiz", "isCacheValid", "event"}

\* generateCumulativeQuiz with the named query of the call rejecting
generateCumulativeQuizFailing(eventId, language, forceRegenerate, query) ==
    LET lang == LanguageOrDefault(language)
        ck == cumulativeKey(eventId, lang)
        cached == getCachedQuiz(cache, cumulative, eventId, lang, now)
        afterLookup == CacheAfterGetCachedQuiz(cache, cumulative, eventId, lang, now)
        invalid == \E quiz \in cached : \E rows \in RowOrders(events, quiz.seriesId) :
                       ~isCacheValid(events, rows, quiz)
        throws == resp' = CumReply(eventId, language, forceRegenerate, "StoreError", {}, 0)
    IN  /\ Len(faults) < MaxFaults
        /\ faults' = Append(faults, query)
        /\ ~forceRegenerate => hits + misses < MaxReads
        /\ hits' = IF forceRegenerate THEN hits
                   ELSE HitsAfterGet(cache, ck, now, hits)
        /\ misses' = IF forceRegenerate THEN misses
                     ELSE MissesAfterGet(cache, ck, now, misses)
        /\ IF query = "getCachedQuiz"
           THEN \* the SELECT after a cache miss rejects: the call rejects
                /\ ~forceRegenerate
                /\ ~CacheLive(cache, ck, now)
                /\ throws
                /\ cache' = CacheAfterRead(cache, ck, now)
                /\ UNCHANGED cumulative
           ELSE IF query = "isCacheValid"
           THEN \* the membership query rejects: catch, return false, go on
                /\ ~forceRegenerate
                /\ cached # {}
                /\ Regenerate(afterLookup, eventId, language, lang, forceRegenerate)
           ELSE \* the event query of step 2 rejects: the call rejects
                /\ forceRegenerate \/ cached = {} \/ invalid
                /\ throws
                /\ cache' = IF forceRegenerate THEN cache ELSE afterLookup
                /\ UNCHANGED cumulative
        /\ UNCHANGED <<adminVars, jobs, calls, now, sets, transcripts, summaries, quizzes, events,
                       aiConfig, wiped>>

(***************************************************************************)
(* SpecCumFail: generateCumulativeQuiz with and without failing queries    *)
(***************************************************************************)
NextCumFail ==
    \/ \E e \in CumTargets, l \in CumLanguages, f \in BOOLEAN :
           generateCumulativeQuiz(e, l, f)
    \/ \E e \in CumTargets, l \in CumLanguages, f \in BOOLEAN, q \in FailingQueries :
           generateCumulativeQuizFailing(e, l, f, q)
    \/ \E id \in {9, 30}, st \in {"ready", "processing"} : SetEventState(id, st)
    \/ ClearCache

SpecCumFail == InitCum /\ [][NextCumFail]_vars

\* C18: when a store query fails during generateCumulativeQuiz, the membership
\* query of the validity check included, the call fails with that error; it
\* does not go on to another outcome.
C18_StoreErrorsPropagate ==
    [][\A e \in CumTargets, f \in BOOLEAN :
        (CumCalled(e, f) /\ Len(faults') = Len(faults) + 1)
            => /\ resp'.outcome = "StoreError"
               /\ UNCHANGED cumulative
      ]_vars

(***************************************************************************)
(* Claims about repeated calls of getSeriesEventsUpTo                      *)
(***************************************************************************)
\* C20: while the table of events stays the same, every call of
\* getSeriesEventsUpTo for the same series and target returns the same ids in
\* the same order with the same positions, also when two members have the
\* same order and the same created time.
C20_StableOrder ==
    [][(/\ resp.op = "getSeriesEventsUpTo"
        /\ resp'.op = "getSeriesEventsUpTo"
        /\ resp'.seriesId = resp.seriesId
        /\ resp'.upToEventId = resp.upToEventId
        /\ events' = events)
       => resp'.rows = resp.rows
      ]_vars

(***************************************************************************)
(* SpecModeration: artifacts are generated, edited and approved by an      *)
(* administrator and regenerated; the cumulative quiz of event 30 is       *)
(* generated, approved by a moderator of the portal and regenerated        *)
(***************************************************************************)
EditedSummaries == {"", "summary-edit"}
EditedQuizzes ==
    {NoQuizInBody,
     [questions |-> JsonArray(<<[question |-> "q-edit", timestamp |-> {}]>>)]}
ApprovedValues == {{}, {TRUE}, {FALSE}}
ApprovedByValues == {{}, {"alice"}}

\* a moderator of the portal approves the cumulative quiz in the shared table
ApproveCumulative(key, approvedBy) ==
    /\ key \in DOMAIN cumulative
    /\ ~cumulative[key].approved
    /\ cumulative' = [cumulative EXCEPT ![key].approved = TRUE,
                                        ![key].approved_at = {now},
                                        ![key].approved_by = {approvedBy}]
    /\ resp' = [op |-> "approveCumulative"]
    /\ UNCHANGED <<flightVars, now, cacheVars, sets, transcripts, summaries, quizzes,
                   events, aiConfig, wiped>>

\* the installations: one with only summaries switched on, one with only
\* quizzes switched on, one with both switched off and the series of event 30
ModerationSetups ==
    {[config |-> [k \in ConfigKeys |-> IF k = "features_enabled" THEN "true" ELSE "false"],
      events |-> EmptyMap],
     [config |-> [k \in ConfigKeys |-> IF k = "quiz_enabled" THEN "true" ELSE "false"],
      events |-> EmptyMap],
     [config |-> [k \in ConfigKeys |-> "false"],
      events |-> CumEvents]}

InitModeration ==
    /\ now = 0
    /\ jobs = EmptyMap
    /\ calls = EmptyMap
    /\ faults = <<>>
    /\ queue = QueueNotStarted
    /\ contentFlags = EmptyMap
    /\ flagged = EmptyMap
    /\ cache = EmptyMap
    /\ hits = 0
    /\ misses = 0
    /\ sets = EmptyMap
    /\ transcripts = [key \in {<<9, German>>} |->
                         [content |-> "transcript-a", source |-> "manual_upload"]]
    /\ summaries = EmptyMap
    /\ quizzes = EmptyMap
    /\ cumulative = EmptyMap
    /\ \E setup \in ModerationSetups :
           /\ events = setup.events
           /\ aiConfig = setup.config
    /\ resp = NoCall
    /\ wiped = [summary |-> {}, quiz |-> {}]

NextModeration ==
    \/ \E f \in BOOLEAN : GenerateSummary(9, German, f)
    \/ \E f \in BOOLEAN : GenerateQuiz(9, German, f)
    \/ \E sm \in EditedSummaries, a \in ApprovedValues, by \in ApprovedByValues :
           UpdateSummary(9, German, sm, a, by)
    \/ \E qz \in EditedQuizzes, a \in ApprovedValues, by \in ApprovedByValues :
           UpdateQuiz(9, German, qz, a, by)
    \/ \E f \in BOOLEAN : generateCumulativeQuiz(30, German, f)
    \/ ApproveCumulative(<<30, German>>, "alice")

SpecModeration == InitModeration /\ [][NextModeration]_vars

\* the columns of a row that a regeneration may change
PayloadColumns ==
    {"summary", "quiz_data", "model", "processing_time_ms",
     "questions", "includedEventIds", "videoCount", "processingTimeMs"}

\* the upsert of a regeneration left every other column of the row alone
KeptOnConflict(before, after) ==
    /\ DOMAIN after = DOMAIN before
    /\ \A column \in DOMAIN before \ PayloadColumns : after[column] = before[column]

\* C22: a generation that upserts over an existing row of ai_summaries,
\* ai_quizzes or ai_cumulative_quizzes changes only the payload, model and
\* processing time of that row: approved, approved_at, approved_by,
\* edited_by_human and last_edited_by keep their values
C22_ModerationKept ==
    [][/\ (resp'.op = "generateSummary" /\ resp'.stored = 1)
           => \A key \in resp'.key :
                  key \in DOMAIN summaries
                  => /\ KeptOnConflict(summaries[key], summaries'[key])
                     /\ Moderation(summaries'[key]) = Moderation(summaries[key])
       /\ (resp'.op = "generateQuiz" /\ resp'.stored = 1)
           => \A key \in resp'.key :
                  key \in DOMAIN quizzes
                  => /\ KeptOnConflict(quizzes[key], quizzes'[key])
                     /\ Moderation(quizzes'[key]) = Moderation(quizzes[key])
       /\ (resp'.op = "generateCumulativeQuiz" /\ resp'.stored = 1)
           => \A key \in DOMAIN cumulative :
                  /\ KeptOnConflict(cumulative[key], cumulative'[key])
                  /\ Moderation(cumulative'[key]) = Moderation(cumulative[key])
      ]_vars

\* an approved, human-edited summary was regenerated and is still approved
\* and marked as edited, with the regenerated text
C22_Witness ==
    /\ resp.op = "generateSummary" /\ resp.source = "fresh"
    /\ <<9, German>> \in DOMAIN summaries
    /\ summaries[<<9, German>>].approved
    /\ summaries[<<9, German>>].approved_by = {"alice"}
    /\ summaries[<<9, German>>].edited_by_human
    /\ summaries[<<9, German>>].summary = "summary-b"

(***************************************************************************)
(* Claims about the feature toggles                                        *)
(***************************************************************************)
\* the toggle is stored with the value false
ToggleIsFalse(cfg, toggle) == toggle \in DOMAIN cfg /\ cfg[toggle] = "false"

\* the toggle of the kind that the request generates
ToggleOf(op) == IF op = "generateSummary" THEN "summary_enabled" ELSE "quiz_enabled"

\* C23: with features_enabled off, a summary or quiz generation request is
\* answered 403 without invoking the Generator whatever the kind's own
\* toggle says; with features_enabled on, the request is refused exactly
\* when the kind's own toggle is false
C23_MasterSwitch ==
    [][(resp'.op \in {"generateSummary", "generateQuiz"} /\ resp'.key # {})
          => IF ~isFeatureEnabled(aiConfig)
             THEN resp'.status = 403 /\ resp'.generated = 0
             ELSE resp'.status = 403 <=> ToggleIsFalse(aiConfig, ToggleOf(resp'.op))
      ]_vars

(***************************************************************************)
(* SpecRetry: jobs of every kind are added and attempted. SpecRetryFair    *)
(* adds what BullMQ's worker loop provides while the service runs: a job   *)
(* that is waiting is picked up by the worker of its queue.                *)
(***************************************************************************)
MaxRetryJobs == 1        \* SpecRetry: at most this many jobs are added
BatchLimits == {10}

\* a request that adds a job can still be made
MayAdd == Cardinality(DOMAIN jobs) < MaxRetryJobs

Worker(id) == SummaryWorker(id) \/ QuizWorker(id) \/ CaptionWorker(id)

NextRetry ==
    \/ \E redis \in RedisOutcomes : InitializeQueues(redis)
    \/ \E e \in HttpEventIds, f \in BOOLEAN :
           MayAdd /\ EnqueueSummaryGeneration(e, German, f)
    \/ \E e \in HttpEventIds, f \in BOOLEAN :
           MayAdd /\ EnqueueQuizGeneration(e, German, f)
    \/ \E e \in HttpEventIds : MayAdd /\ EnqueueCaptionExtraction(e, German)
    \/ \E limit \in BatchLimits : MayAdd /\ EnqueueBatchCaptionExtraction(limit)
    \/ \E id \in 1..MaxRetryJobs : SummaryWorker(id)
    \/ \E id \in 1..MaxRetryJobs : QuizWorker(id)
    \/ \E id \in 1..MaxRetryJobs : CaptionWorker(id)
    \/ \E e \in HttpEventIds, c \in TranscriptContents : UploadTranscript(e, German, c)

SpecRetry == Init /\ [][NextRetry]_vars

SpecRetryFair == SpecRetry /\ \A id \in 1..MaxRetryJobs : WF_vars(Worker(id))

\* the job is completed or failed
Ended(job) == job.state \in {"completed", "failed"}

\* the processor threw in this step's attempt of job id
Threw(id) == Attempted(id) /\ jobs'[id].state # "completed"

MaxFlags == 2            \* SpecFlags: at most this many flags in the table

FlagStatuses == {"resolved", "dismissed", "pending"}
RequestedStatuses == FlagStatuses \cup {"", "closed"}
ContentTypes == {"summary", "quiz"}
ContentIds == {1}

\* the content a flag is about: the table and the row id
ContentOf(flag) == <<flag.content_type, flag.content_id>>

\* SELECT COUNT(*) ... WHERE content_type = $1 AND content_id = $2 AND
\* status = 'pending'
PendingCount(tbl, content) ==
    Cardinality({id \in DOMAIN tbl :
                    ContentOf(tbl[id]) = content /\ tbl[id].status = "pending"})

\* the flagged column after the handler updated the flag to status, tbl being
\* the flags after that update
flaggedAfterUpdate(bits, tbl, content, status) ==
    IF status \in {"resolved", "dismissed"} /\ PendingCount(tbl, content) = 0
    THEN [bits EXCEPT ![content] = FALSE]
    ELSE bits

FlagReply(id, requested, status) ==
    [op |-> "updateFlag", id |-> id, requested |-> requested, status |-> status]

\* PUT /api/admin/flags/:id
UpdateFlag(id, status) ==
    /\ IF status \notin FlagStatuses
       THEN /\ resp' = FlagReply(id, status, 400)
            /\ UNCHANGED <<contentFlags, flagged>>
       ELSE IF id \notin DOMAIN contentFlags
       THEN /\ resp' = FlagReply(id, status, 404)
            /\ UNCHANGED <<contentFlags, flagged>>
       ELSE /\ contentFlags' = [contentFlags EXCEPT ![id].status = status]
            /\ flagged' = flaggedAfterUpdate(flagged, contentFlags',
                                             ContentOf(contentFlags[id]), status)
            /\ resp' = FlagReply(id, status, 200)
    /\ UNCHANGED <<jobs, calls, faults, queue, now, cacheVars, sets, storeVars, wiped>>

\* the flags that users have raised when the administrator starts: every
\* flag pending and its content flagged
FlagTables ==
    UNION {[1..n -> [content_type : ContentTypes, content_id : ContentIds,
                     status : {"pending"}]] : n \in 1..MaxFlags}

InitFlags ==
    /\ now = 0
    /\ jobs = EmptyMap
    /\ calls = EmptyMap
    /\ faults = <<>>
    /\ queue = QueueNotStarted
    /\ contentFlags \in FlagTables
    /\ flagged = [content \in ContentTypes \X ContentIds |->
                     \E id \in DOMAIN contentFlags : ContentOf(contentFlags[id]) = content]
    /\ cache = EmptyMap
    /\ hits = 0
    /\ misses = 0
    /\ sets = EmptyMap
    /\ transcripts = EmptyMap
    /\ summaries = EmptyMap
    /\ quizzes = EmptyMap
    /\ cumulative = EmptyMap
    /\ events = EmptyMap
    /\ aiConfig = EmptyMap
    /\ resp = NoCall
    /\ wiped = EmptyMap

NextFlags ==
    \E id \in 1..(MaxFlags + 1), status \in RequestedStatuses : UpdateFlag(id, status)

SpecFlags == InitFlags /\ [][NextFlags]_vars

\* the handler resolved or dismissed flag id in this step
Settled(id) ==
    /\ resp'.op = "updateFlag" /\ resp'.id = id /\ resp'.status = 200
    /\ resp'.requested \in {"resolved", "dismissed"}
    /\ contentFlags'[id].status = resp'.requested
    /\ contentFlags # contentFlags' \/ resp # resp'

\* C25: after a flag is resolved or dismissed its content is unflagged
\* exactly when no pending flag remains for that content
C25_UnflaggedIffNoPending ==
    [][\A id \in DOMAIN contentFlags :
          Settled(id)
          => (flagged'[ContentOf(contentFlags[id])] = FALSE
                  <=> PendingCount(contentFlags', ContentOf(contentFlags[id])) = 0)
      ]_vars


(***************************************************************************)
(* The quiz generator (openai.service.ts, generateQuiz). The reply of the  *)
(* chat-completions call is an input: the call throws, or it returns a     *)
(* message whose content is null or a text. A text is described by whether *)
(* it is wrapped in a markdown fence and by the JSON document it holds.    *)
(***************************************************************************)
MaxGenQuestions == 6     \* SpecGenerator: a reply holds at most this many questions
MinQuizQuestions == 5    \* quizData.questions.length < 5 is refused

GenQuestion == [question |-> "qa", timestamp |-> {12}]

QuestionsOfLength(n) == JsonArray([i \in 1..n |-> GenQuestion])

\* the JSON documents a reply can hold
JsonDocs ==
    {[type |-> "garbage", questions |-> JsonAbsent],
     [type |-> "null", questions |-> JsonAbsent],
     [type |-> "number", questions |-> JsonAbsent],
     [type |-> "array", questions |-> JsonAbsent],
     [type |-> "object", questions |-> JsonAbsent],
     [type |-> "object", questions |-> JsonOther]}
    \cup {[type |-> "object", questions |-> QuestionsOfLength(n)] :
            n \in 0..MaxGenQuestions}

EmptyObject == [type |-> "object", questions |-> JsonAbsent]

\* what this.client.chat.completions.create() does
ApiReplies ==
    {[kind |-> "throws", message |-> "Request timed out.", content |-> {}],
     [kind |-> "message", message |-> "", content |-> {}]}
    \cup {[kind |-> "message", message |-> "",
           content |-> {[fenced |-> f, doc |-> d]}] :
            f \in BOOLEAN, d \in JsonDocs}

GenTranscripts == {"", "transcript-a"}
ModelArguments == {{}, {"model-a"}}
ConfiguredModels == {{}, {"model-b"}}
FallbackModel == "gpt-4"
ElapsedMs == {1, 2}

\* model || await db.getDefaultModel() || this.defaultModel
useModel(model, configured) ==
    IF model # {} THEN CHOOSE m \in model : TRUE
    ELSE IF configured # {} THEN CHOOSE m \in configured : TRUE
    ELSE FallbackModel

\* content?.trim() || '{}', the fences removed, then JSON.parse
ParsedContent(content) ==
    IF content = {} THEN EmptyObject ELSE (CHOOSE c \in content : TRUE).doc

GenFailure(message, modelCalls) ==
    [ok |-> FALSE, model |-> "", processingTime |-> 0, message |-> message,
     quizData |-> [questions |-> JsonAbsent], modelCalls |-> modelCalls]

\* the body of the try block after the call has returned
QuizFromReply(reply, model, elapsed) ==
    LET doc == ParsedContent(reply.content)
        wrap(text) == GenFailure("Failed to generate quiz: " \o text, 1)
    IN  IF reply.kind = "throws" THEN wrap(reply.message)
        ELSE IF doc.type = "garbage"
        THEN wrap("Unexpected token in JSON")
        ELSE IF doc.type = "null"
        THEN wrap("Cannot read properties of null (reading 'questions')")
        ELSE IF doc.type # "object" \/ doc.questions.kind # "array"
        THEN wrap("Invalid quiz format: missing questions array")
        ELSE IF Len(doc.questions.items) < MinQuizQuestions
        THEN wrap("Quiz must have at least 5 questions")
        ELSE [ok |-> TRUE, model |-> model, processingTime |-> elapsed,
              message |-> "", quizData |-> [questions |-> doc.questions],
              modelCalls |-> 1]

\* a generator that returns whatever questions array it parsed
generateQuizAnyLength(transcript, model, configured, reply, elapsed) ==
    LET doc == ParsedContent(reply.content)
        strict == QuizFromReply(reply, useModel(model, configured), elapsed)
    IN  IF transcript = "" THEN GenFailure("Transcript is empty", 0)
        ELSE IF reply.kind = "message" /\ doc.type = "object"
                /\ doc.questions.kind = "array"
        THEN [ok |-> TRUE, model |-> useModel(model, configured),
              processingTime |-> elapsed, message |-> "",
              quizData |-> [questions |-> doc.questions], modelCalls |-> 1]
        ELSE strict

\* openai.generateQuiz(transcript, model)
generateQuiz(transcript, model, configured, reply, elapsed) ==
    IF transcript = ""
    THEN GenFailure("Transcript is empty", 0)
    ELSE QuizFromReply(reply, useModel(model, configured), elapsed)

\* one call of the generator
CallGenerateQuiz(transcript, model, configured, reply, elapsed) ==
    /\ resp' = [op |-> "openai.generateQuiz", transcript |-> transcript,
                model |-> model, configured |-> configured, reply |-> reply,
                result |-> generateQuiz(transcript, model, configured, reply, elapsed)]
    /\ UNCHANGED <<flightVars, now, cacheVars, sets, storeVars, wiped>>

NextGenerator ==
    \E transcript \in GenTranscripts, model \in ModelArguments,
       configured \in ConfiguredModels, reply \in ApiReplies, elapsed \in ElapsedMs :
        CallGenerateQuiz(transcript, model, configured, reply, elapsed)

SpecGenerator == Init /\ [][NextGenerator]_vars

\* C29: the quiz generator either fails with an error that carries a message
\* or returns a quiz whose questions field is an array of at least 5
\* questions; an empty transcript is refused without a call to the model
C29_GeneratorContract ==
    resp.op = "openai.generateQuiz" =>
        LET r == resp.result
        IN  /\ ~r.ok => r.message # ""
            /\ r.ok => /\ r.quizData.questions.kind = "array"
                       /\ Len(r.quizData.questions.items) >= MinQuizQuestions
            /\ resp.transcript = "" => (~r.ok /\ r.modelCalls = 0)

\* a fenced reply with exactly five questions has been returned as a quiz
C29_Witness ==
    /\ resp.op = "openai.generateQuiz"
    /\ resp.result.ok
    /\ resp.reply.content # {}
    /\ \A c \in resp.reply.content : c.fenced
    /\ Len(resp.result.quizData.questions.items) = MinQuizQuestions

\* a reply with four questions has been refused
C29_WitnessRefused ==
    /\ resp.op = "openai.generateQuiz"
    /\ ~resp.result.ok
    /\ resp.result.message = "Failed to generate quiz: Quiz must have at least 5 questions"
    /\ \E c \in resp.reply.content : Len(c.doc.questions.items) = 4


(***************************************************************************)
(* SpecStale: the per-event quizzes of a series are edited, regenerated    *)
(* and deleted while the series keeps its members, and the cumulative quiz *)
(* of its last event is requested                                          *)
(***************************************************************************)
StaleMembers == {9, 10}

\* the quiz an editor sends
EditedQuiz == [questions |-> JsonArray(<<[question |-> "qe", timestamp |-> {}]>>)]

\* the quizzes of SpecCum as stored rows, a transcript for event 9, quizzes on
InitStale ==
    /\ now = 0
    /\ jobs = EmptyMap
    /\ calls = EmptyMap
    /\ faults = <<>>
    /\ queue = QueueNotStarted
    /\ contentFlags = EmptyMap
    /\ flagged = EmptyMap
    /\ cache = EmptyMap
    /\ hits = 0
    /\ misses = 0
    /\ sets = EmptyMap
    /\ transcripts = [key \in {<<9, German>>} |->
                         [content |-> "transcript-a", source |-> "manual_upload"]]
    /\ summaries = EmptyMap
    /\ quizzes = [key \in DOMAIN CumQuizzes |->
                    [quiz_data |-> CumQuizzes[key].quiz_data, model |-> "model-a",
                     processing_time_ms |-> 1] @@ NotModerated]
    /\ cumulative = EmptyMap
    /\ events = CumEvents
    /\ aiConfig = [k \in {"quiz_enabled"} |-> "true"]
    /\ resp = NoCall
    /\ wiped = [t \in {"summary", "quiz"} |-> {}]

NextStale ==
    \/ \E e \in CumTargets, f \in BOOLEAN : generateCumulativeQuiz(e, German, f)
    \/ \E m \in StaleMembers : UpdateQuiz(m, German, EditedQuiz, {}, {})
    \/ GenerateQuiz(9, German, TRUE)
    \/ \E m \in StaleMembers : DeleteQuiz(m, German)
    \/ ClearCache

SpecStale == InitStale /\ [][NextStale]_vars

\* the artifact getCachedQuiz finds now for the event
ArtifactNow(eventId) == getCachedQuiz(cache, cumulative, eventId, German, now)

\* the questions generateCumulativeQuiz would merge now
QuestionsNow(eventId) ==
    LET rows == CHOOSE r \in RowOrders(events, events[eventId].series) : TRUE
        seriesEvents == getSeriesEventsUpTo(events, rows, eventId)
    IN  combineQuizzes([i \in DOMAIN seriesEvents |->
                           getOrGenerateIndividualQuiz(quizzes, seriesEvents[i].id, German)],
                       seriesEvents)

\* C30: while the members of the series stay the same, a non-forced
\* generateCumulativeQuiz returns the artifact that is cached or stored,
\* whatever has happened to the members' quizzes since: nothing is
\* regenerated and the table is not written
C30_StaleArtifactServed ==
    [][\A e \in CumTargets :
          (CumCalled(e, FALSE) /\ ArtifactNow(e) # {})
          => /\ resp'.outcome = "cached"
             /\ resp'.quiz = ArtifactNow(e)
             /\ resp'.stored = 0
             /\ UNCHANGED <<cumulative, quizzes>>
      ]_vars

\* the quiz of event 9 was deleted and the quiz of event 10 edited after the
\* artifact was made, the cache was cleared, and the artifact from the table
\* was returned with the questions as they were
C30_Witness ==
    /\ resp.op = "generateCumulativeQuiz" /\ ~resp.force
    /\ resp.outcome = "cached"
    /\ <<9, German>> \notin DOMAIN quizzes
    /\ <<10, German>> \in DOMAIN quizzes
    /\ quizzes[<<10, German>>].edited_by_human
    /\ hits = 0
    /\ \A q \in resp.quiz :
          /\ QuestionsFrom(q, 9) # {}
          /\ q.questions # QuestionsNow(30)


(***************************************************************************)
(* SpecCumSteps: generateCumulativeQuiz as the two queries it awaits one   *)
(* after the other, the event query of step 2 and the member query of      *)
(* step 3, while other writers change all_events                           *)
(***************************************************************************)
\* steps 1 and 2: the cache check of a non-forced call, then the event query;
\* seen is what the event's row held when the query ran
LookupEvent(eventId, language, forceRegenerate) ==
    LET lang == LanguageOrDefault(language)
        ck == cumulativeKey(eventId, lang)
        cached == getCachedQuiz(cache, cumulative, eventId, lang, now)
        afterLookup == CacheAfterGetCachedQuiz(cache, cumulative, eventId, lang, now)
        valid == \E quiz \in cached : \E rows \in RowOrders(events, quiz.seriesId) :
                     isCacheValid(events, rows, quiz)
    IN  /\ calls = EmptyMap
        /\ ~forceRegenerate => hits + misses < MaxReads
        /\ hits' = IF forceRegenerate THEN hits ELSE HitsAfterGet(cache, ck, now, hits)
        /\ misses' = IF forceRegenerate THEN misses
                     ELSE MissesAfterGet(cache, ck, now, misses)
        /\ cache' = IF forceRegenerate THEN cache ELSE afterLookup
        /\ IF ~forceRegenerate /\ valid
           THEN /\ resp' = CumReply(eventId, language, forceRegenerate, "cached", cached, 0)
                /\ UNCHANGED calls
           ELSE IF ~EventInSeries(events, eventId)
           THEN /\ resp' = CumReply(eventId, language, forceRegenerate, "NotFound", {}, 0)
                /\ UNCHANGED calls
           ELSE /\ calls' = MapPut(calls, 1,
                       [op |-> "generateCumulativeQuiz", eventId |-> eventId,
                        language |-> language, force |-> forceRegenerate,
                        seriesId |-> events[eventId].series,
                        seen |-> events[eventId]])
                /\ resp' = [op |-> "eventQuery", eventId |-> eventId]
        /\ UNCHANGED <<adminVars, jobs, faults, now, sets, storeVars, wiped>>

\* steps 3 to 6 of the call in progress
QueryMembers ==
    /\ 1 \in DOMAIN calls
    /\ \E rows \in RowOrders(events, calls[1].seriesId),
          processingTimeMs \in ProcessingTimes :
         LET c == calls[1]
             lang == LanguageOrDefault(c.language)
             seriesEvents == getSeriesEventsUpTo(events, rows, c.eventId)
             individual == [i \in DOMAIN seriesEvents |->
                 getOrGenerateIndividualQuiz(quizzes, seriesEvents[i].id, lang)]
             quiz == [eventId |-> c.eventId,
                      seriesId |-> c.seriesId,
                      language |-> lang,
                      model |-> "gpt-4",
                      questions |-> combineQuizzes(individual, seriesEvents),
                      includedEventIds |-> IdsOf(seriesEvents),
                      videoCount |-> Len(seriesEvents),
                      processingTimeMs |-> processingTimeMs]
         IN  IF seriesEvents = <<>>
             THEN /\ resp' = CumReply(c.eventId, c.language, c.force, "EmptySeries", {}, 0)
                  /\ UNCHANGED <<cache, cumulative>>
             ELSE /\ cumulative' = UpsertCumulative(cumulative, quiz)
                  /\ cache' = CacheAfterSet(cache, cumulativeKey(c.eventId, lang), quiz,
                                            {CumulativeTtlSeconds}, now)
                  /\ resp' = CumReply(c.eventId, c.language, c.force, "fresh", {quiz}, 1)
    /\ calls' = EmptyMap
    /\ UNCHANGED <<adminVars, jobs, faults, now, hits, misses, sets, transcripts, summaries,
                   quizzes, events, aiConfig, wiped>>

NextCumSteps ==
    \/ \E e \in CumTargets, l \in CumLanguages, f \in BOOLEAN : LookupEvent(e, l, f)
    \/ QueryMembers
    \/ \E id \in {9, 30}, st \in {"ready", "processing"} : SetEventState(id, st)
    \/ \E o \in {{}, {1}} : SetEventOrder(10, o)
    \/ \E sr \in SeriesIds : SetEventSeries(30, sr)
    \/ ClearCache

SpecCumSteps == InitCum /\ [][NextCumSteps]_vars

\* the step is the member query of the call in progress
MembersQueried == 1 \in DOMAIN calls /\ calls' = EmptyMap

\* the event is now a ready member of the series the call looked up
StillMember(c) ==
    EventInSeries(events, c.eventId) /\ events[c.eventId].series = c.seriesId

NextSkip ==
    \/ \E redis \in RedisOutcomes : InitializeQueues(redis)
    \/ \E f \in BOOLEAN : MayAdd /\ EnqueueSummaryGeneration(9, German, f)
    \/ MayAdd /\ EnqueueQuizGeneration(9, German, FALSE)
    \/ \E id \in 1..MaxRetryJobs : SummaryWorker(id)
    \/ \E id \in 1..MaxRetryJobs : QuizWorker(id)
    \/ \E c \in TranscriptContents : UploadTranscript(9, German, c)
    \/ DeleteAllSummaries
    \/ DeleteAllQuizzes

SpecSkip == Init /\ [][NextSkip]_vars

\* the table a job writes
TableOf(job, s, q) == IF job.name = "generate-summary" THEN s ELSE q

\* the step is an attempt of job id
AttemptOf(id) ==
    /\ id \in DOMAIN jobs
    /\ jobs'[id].attemptsMade = jobs[id].attemptsMade + 1

\* C33 (as the code has it): an attempt of a non-forced job that finds the
\* row in the store ends skipped, with no generator call and no write to the
\* store or the cache; an attempt of such a job writes the store only when it
\* found no row. A job that wrote the row and then failed therefore skips on
\* its retry, unless the row was deleted in between.
C33_ExistingRowIsSkipped ==
    [][\A id \in 1..MaxRetryJobs :
          (AttemptOf(id) /\ ~jobs[id].forceRegenerate)
          => LET job == jobs[id]
                 key == <<job.eventId, job.language>>
                 found == key \in DOMAIN TableOf(job, summaries, quizzes)
             IN  /\ found => /\ jobs'[id].state = "completed"
                             /\ jobs'[id].returned = "skipped"
                             /\ jobs'[id].generated = job.generated
                             /\ jobs'[id].stored = job.stored
                             /\ UNCHANGED <<summaries, quizzes, cache>>
                 /\ jobs'[id].stored > job.stored => ~found
                 /\ (~found /\ jobs'[id].stored > job.stored)
                      => key \in DOMAIN TableOf(job, summaries', quizzes')
      ]_vars

\* C33 (as stated): over all attempts of a non-forced job the store is
\* written at most once
C33_WrittenAtMostOnce ==
    \A id \in DOMAIN jobs : ~jobs[id].forceRegenerate => jobs[id].stored <= 1

\* a non-forced job wrote the row, failed, and skipped on its retry
C33_Witness ==
    \E id \in DOMAIN jobs :
        /\ ~jobs[id].forceRegenerate
        /\ jobs[id].stored = 1
        /\ jobs[id].attemptsMade = 2
        /\ jobs[id].state = "completed"
        /\ jobs[id].returned = "skipped"

\* a non-forced job wrote the row twice
C33_WitnessTwice ==
    \E id \in DOMAIN jobs : ~jobs[id].forceRegenerate /\ jobs[id].stored = 2


(***************************************************************************)
(* The transcript endpoints. The repository holds two versions of their    *)
(* handlers: one normalizes the language before it forms the cache key     *)
(* (UploadTranscript above, GetTranscript), the other (src/index.ts) forms  *)
(* the cache key from the language as it was sent and leaves the           *)
(* normalization to DatabaseService (UploadTranscriptRawKey,               *)
(* GetTranscriptRawKey).                                                   *)
(***************************************************************************)
TranscriptVersions == {"transcript-a", "transcript-b"}

English == <<"e", "n">>

\* language = 'en' in the destructuring: the default replaces undefined only
DefaultIfUndefined(language) == IF language = Undefined THEN English ELSE language

\* (req.query.language as string) || 'en'
DefaultIfFalsy(language) == IF Falsy(language) THEN English ELSE language

TranscriptReply(op, eventId, language, status, source, payload) ==
    [op |-> op, eventId |-> eventId, language |-> language, status |-> status,
     source |-> source, payload |-> payload]

\* the GET handler once the language of the cache key and of the query is known
ReadTranscript(eventId, language, keyLanguage) ==
    LET ck == transcriptKey(eventId, keyLanguage)
        key == <<eventId, normalizeLanguageCode(language)>>
        cached == CacheGetResult(cache, ck, now)
        afterRead == CacheAfterRead(cache, ck, now)
        say(status, source, payload) ==
            resp' = TranscriptReply("getTranscript", eventId, language, status,
                                    source, payload)
    IN  /\ hits + misses < MaxReads
        /\ hits' = HitsAfterGet(cache, ck, now, hits)
        /\ misses' = MissesAfterGet(cache, ck, now, misses)
        /\ IF cached.hit
           THEN /\ say(200, "cache", {cached.data})
                /\ cache' = afterRead
           ELSE IF LanguageRejected(language)
           THEN /\ say(500, "none", {})
                /\ cache' = afterRead
           ELSE IF key \notin DOMAIN transcripts
           THEN /\ say(404, "none", {})
                /\ cache' = afterRead
           ELSE /\ say(200, "store", {transcripts[key].content})
                /\ cache' = CacheAfterSet(afterRead, ck, transcripts[key].content, {}, now)
        /\ UNCHANGED <<flightVars, now, sets, storeVars, wiped>>

\* GET /api/transcripts/:eventId with the normalized cache key
GetTranscript(eventId, language) ==
    IF Falsy(language) \/ LanguageRejected(language)
    THEN /\ resp' = TranscriptReply("getTranscript", eventId, language,
                                    IF Falsy(language) THEN 400 ELSE 500, "none", {})
         /\ UNCHANGED <<flightVars, now, cacheVars, sets, storeVars, wiped>>
    ELSE ReadTranscript(eventId, language, normalizeLanguageCode(language))

\* GET /api/transcripts/:eventId of src/index.ts
GetTranscriptRawKey(eventId, language) ==
    ReadTranscript(eventId, DefaultIfFalsy(language), DefaultIfFalsy(language))

\* POST /api/transcripts/upload of src/index.ts
UploadTranscriptRawKey(eventId, language, content) ==
    LET sent == DefaultIfUndefined(language)
    IN  IF LanguageRejected(sent)
        THEN /\ resp' = TranscriptReply("uploadTranscript", eventId, sent, 500, "none", {})
             /\ UNCHANGED <<flightVars, now, cacheVars, sets, storeVars, wiped>>
        ELSE /\ transcripts' = saveTranscript(transcripts,
                                              <<eventId, normalizeLanguageCode(sent)>>,
                                              content)
             /\ cache' = CacheAfterInvalidate(cache, transcriptKey(eventId, sent))
             /\ resp' = TranscriptReply("uploadTranscript", eventId, sent, 200, "none",
                                        {content})
             /\ UNCHANGED <<flightVars, now, hits, misses, sets, summaries, quizzes,
                            cumulative, events, aiConfig, wiped>>

NextTranscript ==
    \/ \E l \in HttpLanguages, c \in TranscriptVersions :
           UploadTranscript(9, l, c)
    \/ \E l \in HttpLanguages : GetTranscript(9, l)
    \/ Tick

SpecTranscript == Init /\ [][NextTranscript]_vars

NextTranscriptRaw ==
    \/ \E l \in HttpLanguages, c \in TranscriptVersions :
           UploadTranscriptRawKey(9, l, c)
    \/ \E l \in HttpLanguages : GetTranscriptRawKey(9, l)
    \/ Tick

SpecTranscriptRaw == Init /\ [][NextTranscriptRaw]_vars

\* C38: the read that follows a completed upload for the same event and a
\* language equal up to letter case returns the uploaded content
C38_ReadAfterUpload ==
    [][(/\ resp.op = "uploadTranscript" /\ resp.status = 200
        /\ resp'.op = "getTranscript"
        /\ resp'.eventId = resp.eventId
        /\ ~LanguageRejected(resp'.language)
        /\ normalizeLanguageCode(resp'.language) = normalizeLanguageCode(resp.language))
       => (resp'.status = 200 /\ resp'.payload = resp.payload)
      ]_vars


(***************************************************************************)
(* Forced generation over a series in which two members are equal in the   *)
(* ORDER BY of getSeriesEventsUpTo: events 9 and 10 have no order in their *)
(* metadata and the same created time, so ROW_NUMBER() may number them     *)
(* either way in each execution of the query.                              *)
(***************************************************************************)
TiedEvents == [CumEvents EXCEPT ![10].created = CumEvents[9].created]

InitCumTies ==
    /\ now = 0
    /\ jobs = EmptyMap
    /\ calls = EmptyMap
    /\ faults = <<>>
    /\ queue = QueueNotStarted
    /\ contentFlags = EmptyMap
    /\ flagged = EmptyMap
    /\ cache = EmptyMap
    /\ hits = 0
    /\ misses = 0
    /\ sets = EmptyMap
    /\ transcripts = EmptyMap
    /\ summaries = EmptyMap
    /\ quizzes = CumQuizzes
    /\ cumulative = EmptyMap
    /\ events = TiedEvents
    /\ aiConfig = EmptyMap
    /\ resp = NoCall
    /\ wiped = EmptyMap

SpecCumTies == InitCumTies /\ [][NextCum]_vars

\* the answer of a forced call that returned an artifact
ForcedArtifact(r) ==
    /\ r.op = "generateCumulativeQuiz"
    /\ r.force
    /\ r.outcome = "fresh"

\* C39: two forced calls for the same event and language with no change in
\* between return the same seriesId, includedEventIds, videoCount and
\* questions
C39_ForcedIsRepeatable ==
    [][(/\ ForcedArtifact(resp)
        /\ ForcedArtifact(resp')
        /\ resp'.eventId = resp.eventId
        /\ resp'.language = resp.language)
       => (\A a \in resp.quiz, b \in resp'.quiz : Snapshot(a) = Snapshot(b))
      ]_vars

====
